---- MODULE Spec2Model ----
(***************************************************************************)
(* Chat Arena: the session table (server/websocket_manager.py), the wait   *)
(* queue (server/pairing_service.py), the conversation store               *)
(* (server/storage_service.py) and the handlers of server/main.py, as a    *)
(* state machine of cooperatively scheduled asyncio tasks.                 *)
(*                                                                         *)
(* One step of the model is the code a task runs between two suspension    *)
(* points.  A task is suspended by a socket write (ws.send_json), by the   *)
(* file write of end_conversation and by asyncio.sleep.  Acquiring an      *)
(* asyncio.Lock that nobody holds does not suspend, and no lock of the     *)
(* program is held across a suspension point, so lock acquisition is not a *)
(* step boundary.  Calling an `async def` without `await` only builds a    *)
(* coroutine object: the body never runs.  main.py calls                   *)
(* manager.update_session, manager.update_activity and manager.disconnect  *)
(* that way, so those calls change nothing.  check_inactive_users calls    *)
(* manager.get_inactive_users that way too and iterates over the coroutine *)
(* object: the task ends with a TypeError at its first tick, so            *)
(* handle_inactivity_kick never runs and is not an action here.            *)
(***************************************************************************)
EXTENDS Integers, Sequences, FiniteSets, TLC

\* ------------------------------------------------------------------ bounds
\* Client events (frames received, transports closed) and AI idle turns
\* handled in one behaviour.
MaxEvents == 4
\* The frames, other than a first `join`, that TalkSpec lets the clients send.
MaxTalkEvents == 3
\* ai_participants.max_ai_participants of the configurations of Spec; the
\* configuration of OddSpec allows one AI participant more.
MaxAIParticipants == 1
\* The calls of pair_users_atomic that UnitSpec applies in one behaviour.
MaxPairCalls == 2
\* The messages the partner of an AI participant sends it in AISpec.
MaxForwards == 2

\* The clients that may connect; each gets one user_id for its connection.
Users == {"A", "B", "C"}
\* The order in which they connect.
UserOrder == [u \in Users |-> CASE u = "A" -> 1 [] u = "B" -> 2 [] OTHER -> 3]
\* ai_id values the registry can mint.
AIs == {<<"ai", i>> : i \in 1..(MaxAIParticipants + 1)}

\* config.MIN_THINK_CHARS
MIN_THINK_CHARS == 10
\* behavior.idle_timeout_seconds, in sleeps of idle_check_interval_seconds.
IdleTimeout == 2
\* behavior.max_retries
MaxRetries == 3

None == "none"
NoSid == 0
NoTask == 0
\* last_activity of a session that was never stamped.
NoTime == -1

\* Think texts a client may send, with their lengths, and speech texts:
\* "ok" is shorter than MIN_THINK_CHARS, "   " is blank after strip().
Thinks == {"ok", "considering"}
Speeches == {"   ", "Hi"}
AIThink == "ai-think"
AISpeech == "ai-speech"

ThinkLen(t) == CASE t = "ok" -> 2 [] t = "considering" -> 11 [] OTHER -> 8

\* str.strip() on the speech texts of the model.
Strip(sp) == IF sp = "   " THEN "" ELSE sp

\* A text is the sequence of its pieces.
\* f"<think>{think}</think>{speech}"
Canonical(think, speech) == <<"<think>", think, "</think>", speech>>

\* ------------------------------------------------------------------- state
VARIABLES
    sessions,      \* manager.sessions: user_id -> UserSession
    connections,   \* manager.connections: the user_ids with a WebSocket
    wsOpen,        \* user_id -> whether the client's transport is open
    ai_sessions,   \* manager.ai_sessions: ai_id -> AISession
    queue,         \* pairing_service.queue
    timers,        \* the pending deadlines, earliest first
    participants,  \* ai_manager._participants: ai_id -> AIParticipant.state
    conversations, \* storage_service._conversations (memory cache)
    disk,          \* CONVERSATIONS_DIR: session_id -> saved conversation
    nextSid,       \* number of session ids minted so far
    proc,          \* task -> its position and locals
    recv,          \* the frame the last step took from a connection, if any,
                   \* or the sleep of a delayed_pairing task it ended
                   \* (in UnitSpec: the call it applied, with its result)
    wrote,         \* the frame the last step wrote to a connection, if any
    pairedSeen,    \* user_id -> session_id of the last `paired` frame it got
    events,        \* client events and AI turns handled so far
    cfg,           \* the configuration the server started with
    held           \* manager._session_lock and pairing_service._lock: the
                   \* tasks inside `async with` (none at a suspension point
                   \* of the handlers, whose steps take and release them)

vars == <<sessions, connections, wsOpen, ai_sessions, queue, timers,
          participants, conversations, disk, nextSid, proc, recv, wrote,
          pairedSeen, events, cfg, held>>

\* The whole state as one record, so that the code of a step can be written
\* as a function from state to state and steps can be composed in sequence.
\* A step starts with nothing received and nothing written yet.
Cur ==
    [sessions |-> sessions, connections |-> connections, wsOpen |-> wsOpen,
     ai_sessions |-> ai_sessions, queue |-> queue, timers |-> timers,
     participants |-> participants, conversations |-> conversations,
     disk |-> disk, nextSid |-> nextSid, proc |-> proc,
     recv |-> [type |-> "none"], wrote |-> [type |-> "none"],
     pairedSeen |-> pairedSeen,
     events |-> events, cfg |-> cfg, held |-> held]

Commit(s) ==
    /\ sessions' = s.sessions
    /\ connections' = s.connections
    /\ wsOpen' = s.wsOpen
    /\ ai_sessions' = s.ai_sessions
    /\ queue' = s.queue
    /\ timers' = s.timers
    /\ participants' = s.participants
    /\ conversations' = s.conversations
    /\ disk' = s.disk
    /\ nextSid' = s.nextSid
    /\ proc' = s.proc
    /\ recv' = s.recv
    /\ wrote' = s.wrote
    /\ pairedSeen' = s.pairedSeen
    /\ events' = s.events
    /\ cfg' = s.cfg
    /\ held' = s.held

\* ----------------------------------------------------------------- models.py
\* UserSession(user_id=...) with its defaults.
UserSession ==
    [consented |-> FALSE, paired |-> FALSE, partner_id |-> None,
     session_id |-> NoSid, task |-> NoTask, is_ai_partner |-> FALSE,
     last_activity |-> NoTime]

\* The frames of the wire protocol, with the connection they are written
\* to.  `timestamp` is the logical time of a chat turn (its number in the
\* conversation).  `from` and `sid` are not fields of the JSON frame: they
\* record whose turn a partner_message carries and the session it was
\* written in, for the ordering properties.
NoFrame == [type |-> "none"]
WaitingFrame(pos) == [type |-> "waiting", position |-> pos]
PairedFrame(sid, task) == [type |-> "paired", session_id |-> sid, task |-> task]
ErrorFrame(msg) == [type |-> "error", message |-> msg]
PartnerLeftFrame == [type |-> "partner_left"]
JoinFrame(consent) == [type |-> "join", consent |-> consent]
MessageFrame(think, speech) ==
    [type |-> "message", think |-> think, speech |-> speech]
ReassignFrame == [type |-> "reassign"]
DisconnectFrame == [type |-> "disconnect"]
MessageSentFrame(ts) == [type |-> "message_sent", timestamp |-> ts]
PartnerMessageFrame(content, sid, from, ts) ==
    [type |-> "partner_message", content |-> content, timestamp |-> ts,
     sid |-> sid, from |-> from]

\* ws.send_json(data): the frame reaches the client when the transport is
\* open; on a closed transport the write raises and the frame is lost.
WsSend(s, user_id, frame) ==
    IF s.wsOpen[user_id]
    THEN [s EXCEPT !.wrote = [to |-> user_id, frame |-> frame,
                              type |-> frame.type],
                   !.pairedSeen[user_id] =
                       IF frame.type = "paired" THEN frame.session_id ELSE @]
    ELSE s

\* ------------------------------------------------- websocket_manager.py
\* datetime.now(): the clock of the model advances with every client event.
Now(s) == s.events

\* manager.get_session(user_id) is not None
HasSession(s, user_id) == user_id \in DOMAIN s.sessions

\* WebSocketManager.connect
connect(s, user_id) ==
    [s EXCEPT !.connections = @ \cup {user_id},
              !.sessions = (user_id :> UserSession) @@ @,
              !.wsOpen[user_id] = TRUE]

\* pair_users_atomic without the test that neither user is paired.
pair_users_overwrites(s, user_id, partner_id, session_id, user_task, partner_task) ==
    IF ~HasSession(s, user_id) \/ ~HasSession(s, partner_id)
    THEN [ok |-> FALSE, s |-> s]
    ELSE [ok |-> TRUE,
          s |-> [s EXCEPT
              !.sessions[user_id] =
                  [@ EXCEPT !.paired = TRUE, !.partner_id = partner_id,
                            !.session_id = session_id, !.task = user_task,
                            !.is_ai_partner = FALSE, !.last_activity = Now(s)],
              !.sessions[partner_id] =
                  [@ EXCEPT !.paired = TRUE, !.partner_id = user_id,
                            !.session_id = session_id, !.task = partner_task,
                            !.is_ai_partner = FALSE, !.last_activity = Now(s)]]]

\* WebSocketManager.pair_users_atomic: the result and the state after it.
pair_users_atomic(s, user_id, partner_id, session_id, user_task, partner_task) ==
    IF ~HasSession(s, user_id) \/ ~HasSession(s, partner_id)
    THEN [ok |-> FALSE, s |-> s]
    ELSE IF s.sessions[user_id].paired \/ s.sessions[partner_id].paired
    THEN [ok |-> FALSE, s |-> s]
    ELSE [ok |-> TRUE,
          s |-> [s EXCEPT
              !.sessions[user_id] =
                  [@ EXCEPT !.paired = TRUE, !.partner_id = partner_id,
                            !.session_id = session_id, !.task = user_task,
                            !.is_ai_partner = FALSE, !.last_activity = Now(s)],
              !.sessions[partner_id] =
                  [@ EXCEPT !.paired = TRUE, !.partner_id = user_id,
                            !.session_id = session_id, !.task = partner_task,
                            !.is_ai_partner = FALSE, !.last_activity = Now(s)]]]

\* clear_pairing_atomic that forgets to reset the task.
clear_pairing_keeps_task(s, user_id) ==
    IF ~HasSession(s, user_id)
    THEN [partner_id |-> None, s |-> s]
    ELSE [partner_id |-> s.sessions[user_id].partner_id,
          s |-> [s EXCEPT !.sessions[user_id] =
                     [@ EXCEPT !.paired = FALSE, !.partner_id = None,
                               !.session_id = NoSid,
                               !.is_ai_partner = FALSE]]]

\* WebSocketManager.clear_pairing_atomic: the partner_id it returns and the
\* state after it.
clear_pairing_atomic(s, user_id) ==
    IF ~HasSession(s, user_id)
    THEN [partner_id |-> None, s |-> s]
    ELSE [partner_id |-> s.sessions[user_id].partner_id,
          s |-> [s EXCEPT !.sessions[user_id] =
                     [@ EXCEPT !.paired = FALSE, !.partner_id = None,
                               !.session_id = NoSid, !.task = NoTask,
                               !.is_ai_partner = FALSE]]]

\* WebSocketManager.send_json
send_json(s, user_id, frame) ==
    IF user_id \in s.connections THEN WsSend(s, user_id, frame) ELSE s

\* send_to_partner without the test that the partner names the sender.
send_to_partner_unverified(s, user_id, frame) ==
    IF ~HasSession(s, user_id) \/ s.sessions[user_id].partner_id = None
    THEN s
    ELSE LET partner_id == s.sessions[user_id].partner_id
         IN  IF partner_id \in s.connections
             THEN WsSend(s, partner_id, frame)
             ELSE s

\* WebSocketManager.send_to_partner: the partner is resolved and checked
\* under the session lock and the frame is written to the connection found.
send_to_partner(s, user_id, frame) ==
    IF ~HasSession(s, user_id) \/ s.sessions[user_id].partner_id = None
    THEN s
    ELSE LET partner_id == s.sessions[user_id].partner_id
             mutual == /\ HasSession(s, partner_id)
                       /\ s.sessions[partner_id].partner_id = user_id
             ai_ok == /\ partner_id \in DOMAIN s.ai_sessions
                      /\ s.ai_sessions[partner_id].partner_id = user_id
         IN  IF (mutual \/ ai_ok) /\ partner_id \in s.connections
             THEN WsSend(s, partner_id, frame)
             ELSE s

\* WebSocketManager.create_ai_session
create_ai_session(s, ai_id, partner_id, session_id) ==
    [s EXCEPT !.ai_sessions =
        (ai_id :> [partner_id |-> partner_id, session_id |-> session_id,
                   is_active |-> TRUE]) @@ @]

\* WebSocketManager.remove_ai_session
remove_ai_session(s, ai_id) ==
    [s EXCEPT !.ai_sessions =
        [a \in DOMAIN @ \ {ai_id} |-> @[a]]]

\* --------------------------------------------------- pairing_service.py
InQueue(s, user_id) == \E i \in 1..Len(s.queue) : s.queue[i] = user_id

\* PairingService.get_queue_position
get_queue_position(s, user_id) ==
    IF InQueue(s, user_id)
    THEN CHOOSE i \in 1..Len(s.queue) :
             /\ s.queue[i] = user_id
             /\ \A j \in 1..(i - 1) : s.queue[j] # user_id
    ELSE 0

\* add_to_queue without the test that the user is not in the queue yet.
add_to_queue_always(s, user_id) == [s EXCEPT !.queue = Append(@, user_id)]

\* PairingService.add_to_queue: the state after it; the position it returns
\* is get_queue_position of that state.
add_to_queue(s, user_id) ==
    IF InQueue(s, user_id) THEN s ELSE [s EXCEPT !.queue = Append(@, user_id)]

\* deque.remove(user_id): removes the first occurrence.
RemoveFirst(q, user_id) ==
    IF \E i \in 1..Len(q) : q[i] = user_id
    THEN LET i == CHOOSE i \in 1..Len(q) :
                      q[i] = user_id /\ \A j \in 1..(i - 1) : q[j] # user_id
         IN  SubSeq(q, 1, i - 1) \o SubSeq(q, i + 1, Len(q))
    ELSE q

\* PairingService.remove_from_queue
remove_from_queue(s, user_id) ==
    [s EXCEPT !.queue = RemoveFirst(@, user_id)]

\* Time.  Every delay of _delayed_users and every sleep of a delayed_pairing
\* task lasts the same reassign_delay_seconds (lifespan copies it into
\* pairing_service), so deadlines pass in the order they were set: `timers`
\* holds <<"delay", user_id>> for an entry of _delayed_users whose time has
\* not come and <<"task", user_id>> for a sleeping delayed_pairing task.
DelayedUsers(s) ==
    {s.timers[i][2] : i \in {j \in 1..Len(s.timers) : s.timers[j][1] = "delay"}}

\* PairingService.is_delayed.  An entry whose time has passed is deleted by
\* Expire, which is what is_delayed does with it on access.
is_delayed(s, user_id) == user_id \in DelayedUsers(s)

\* PairingService.remove_delay
remove_delay(s, user_id) ==
    [s EXCEPT !.timers = SelectSeq(@, LAMBDA x : x # <<"delay", user_id>>)]

\* PairingService.add_delay: a new deadline replaces the user's old one.
add_delay(s, user_id) ==
    [s EXCEPT !.timers =
        Append(SelectSeq(@, LAMBDA x : x # <<"delay", user_id>>),
               <<"delay", user_id>>)]

\* try_pair that takes the first candidate of the queue, delayed or not.
try_pair_ignores_delay(s, user_id) ==
    IF is_delayed(s, user_id)
    THEN [partner_id |-> None, s |-> s]
    ELSE IF Len(s.queue) < 2
    THEN [partner_id |-> None, s |-> s]
    ELSE LET q1 == RemoveFirst(s.queue, user_id)
         IN  IF q1 # <<>>
             THEN [partner_id |-> q1[1], s |-> [s EXCEPT !.queue = Tail(q1)]]
             ELSE [partner_id |-> None,
                   s |-> add_to_queue([s EXCEPT !.queue = q1], user_id)]

\* try_pair without the test that the queue holds at least two users.
try_pair_no_size_test(s, user_id) ==
    IF is_delayed(s, user_id)
    THEN [partner_id |-> None, s |-> s]
    ELSE LET q1 == RemoveFirst(s.queue, user_id)
             ok == {i \in 1..Len(q1) : ~is_delayed(s, q1[i])}
         IN  IF ok # {}
             THEN LET i == CHOOSE i \in ok : \A j \in ok : i <= j
                  IN  [partner_id |-> q1[i],
                       s |-> [s EXCEPT !.queue =
                           SubSeq(q1, 1, i - 1) \o SubSeq(q1, i + 1, Len(q1))]]
             ELSE [partner_id |-> None,
                   s |-> add_to_queue([s EXCEPT !.queue = q1], user_id)]

\* PairingService.try_pair (try_pair_atomic runs it under the queue lock):
\* the partner it returns and the state after it.  The candidates popped
\* while delayed are put back at the front in their order, so the queue
\* after a match is the queue without the requester and the partner.
try_pair(s, user_id) ==
    IF is_delayed(s, user_id)
    THEN [partner_id |-> None, s |-> s]
    ELSE IF Len(s.queue) < 2
    THEN [partner_id |-> None, s |-> s]
    ELSE LET q1 == RemoveFirst(s.queue, user_id)
             ok == {i \in 1..Len(q1) : ~is_delayed(s, q1[i])}
         IN  IF ok # {}
             THEN LET i == CHOOSE i \in ok : \A j \in ok : i <= j
                  IN  [partner_id |-> q1[i],
                       s |-> [s EXCEPT !.queue =
                           SubSeq(q1, 1, i - 1) \o SubSeq(q1, i + 1, Len(q1))]]
             ELSE [partner_id |-> None,
                   s |-> add_to_queue([s EXCEPT !.queue = q1], user_id)]

\* The non-delayed users of the queue, in queue order.
NonDelayed(s) == SelectSeq(s.queue, LAMBDA u : ~is_delayed(s, u))

\* PairingService.has_odd_user_waiting
has_odd_user_waiting(s) == Len(NonDelayed(s)) = 1

\* PairingService.get_odd_user
get_odd_user(s) == IF Len(NonDelayed(s)) = 1 THEN NonDelayed(s)[1] ELSE None

\* get_random_topic() is not None and len(get_random_tasks(2)) >= 2
CatalogOk(s) == s.cfg.catalog_ok

\* PairingService.generate_session_id: a fresh id.
generate_session_id(s) == s.nextSid + 1

\* --------------------------------------------------- storage_service.py
\* StorageService.create_conversation
create_conversation(s, session_id, participants_) ==
    LET c == [participants |-> participants_, messages |-> <<>>,
              ended_at |-> FALSE]
    IN  [s EXCEPT !.conversations = (session_id :> c) @@ @,
                  !.disk = (session_id :> c) @@ @]

\* StorageService.add_message: an uncached conversation is loaded from disk
\* and put back into the cache; an unknown one drops the message.
add_message(s, session_id, role, content) ==
    LET cached == session_id \in DOMAIN s.conversations
        ondisk == session_id \in DOMAIN s.disk
    IN  IF ~cached /\ ~ondisk
        THEN s
        ELSE LET c0 == IF cached THEN s.conversations[session_id]
                       ELSE s.disk[session_id]
                 c1 == [c0 EXCEPT !.messages =
                           Append(@, [role |-> role, content |-> content])]
             IN  [s EXCEPT !.conversations =
                               (session_id :> c1) @@ @,
                           !.disk = (session_id :> c1) @@ @]

\* The number of turns recorded for a session: the logical time of the next
\* turn's timestamp.
Turns(s, session_id) ==
    IF session_id \in DOMAIN s.conversations
    THEN Len(s.conversations[session_id].messages)
    ELSE IF session_id \in DOMAIN s.disk
    THEN Len(s.disk[session_id].messages)
    ELSE 0

\* StorageService.end_conversation up to its file write: ended_at is set on
\* the cached conversation (or on a copy loaded from disk).
end_conversation_begin(s, session_id) ==
    IF session_id \in DOMAIN s.conversations
    THEN [s EXCEPT !.conversations[session_id].ended_at = TRUE]
    ELSE s

\* StorageService.end_conversation from its file write on: the conversation
\* is saved with ended_at set and dropped from the cache.
end_conversation_finish(s, session_id) ==
    LET c == IF session_id \in DOMAIN s.conversations
             THEN s.conversations[session_id]
             ELSE s.disk[session_id]
    IN  [s EXCEPT !.disk = (session_id :> [c EXCEPT !.ended_at = TRUE]) @@ @,
                  !.conversations =
                      [x \in DOMAIN @ \ {session_id} |-> @[x]]]

\* ------------------------------------------------------ llm/ai_manager.py
\* is_available that looks at the `enabled` setting only.
is_available_ignores_providers(s) == s.cfg.ai_enabled

\* AIManager.is_available
is_available(s) == s.cfg.ai_enabled /\ s.cfg.providers_ok

\* AIManager.force_ai_on_odd_users
force_ai_on_odd_users(s) == is_available(s) /\ s.cfg.force_ai

\* AIManager.pairing_delay_enabled
pairing_delay_enabled(s) == s.cfg.delay_enabled

\* create_ai_participant without the test of max_ai_participants.
create_ai_participant_uncapped(s, partner_id, session_id) ==
    IF ~s.cfg.ai_enabled \/ ~s.cfg.providers_ok
    THEN [ai_id |-> None, s |-> s]
    ELSE LET ai_id == <<"ai", Cardinality(DOMAIN s.participants) + 1>>
         IN  [ai_id |-> ai_id,
              s |-> [s EXCEPT !.participants =
                  (ai_id :> [partner_id |-> partner_id,
                             session_id |-> session_id,
                             is_active |-> TRUE,
                             forwarded |-> 0,
                             idle |-> 0,
                             memory |-> <<>>]) @@ @]]

\* AIManager.create_ai_participant with AIParticipant.start_conversation:
\* the ai_id of the new participant (None when none is created) and the
\* state after it.  `idle` is the time since last_partner_message_time,
\* in sleeps of the idle monitor (start_conversation sets the time to now);
\* `memory` holds the entries of ConversationMemory, each with the number
\* of the partner message it is or answers (0 for a re-engagement turn).  The manager is initialised at startup and
\* start_conversation awaits nothing, so no other task runs between the
\* test of the limit and the registration of the participant.
create_ai_participant(s, partner_id, session_id) ==
    IF ~s.cfg.ai_enabled
    THEN [ai_id |-> None, s |-> s]
    ELSE IF Cardinality(DOMAIN s.participants) >= s.cfg.max_ai
    THEN [ai_id |-> None, s |-> s]
    ELSE IF ~s.cfg.providers_ok
    THEN [ai_id |-> None, s |-> s]
    ELSE LET ai_id == CHOOSE a \in AIs \ DOMAIN s.participants : TRUE
         IN  [ai_id |-> ai_id,
              s |-> [s EXCEPT !.participants =
                  (ai_id :> [partner_id |-> partner_id,
                             session_id |-> session_id,
                             is_active |-> TRUE,
                             forwarded |-> 0,
                             idle |-> 0,
                             memory |-> <<>>]) @@ @]]

\* AIManager.remove_ai_participant with AIParticipant.end_conversation
remove_ai_participant(s, ai_id) ==
    [s EXCEPT !.participants = [a \in DOMAIN @ \ {ai_id} |-> @[a]]]

\* AIManager.forward_message_to_ai, started as a task by handle_chat_message
forward_message_to_ai(s, ai_id, content) ==
    IF ai_id \in DOMAIN s.participants
    THEN [s EXCEPT !.participants[ai_id].forwarded = @ + 1]
    ELSE s

\* ------------------------------------------------------------------ tasks
\* The dispatcher loop of a connection (websocket_endpoint) and the
\* delayed_pairing tasks of a user.
Disp(u) == <<"disp", u>>
DTask(u) == <<"task", u>>
Procs == {Disp(u) : u \in Users} \cup {DTask(u) : u \in Users}
Owner(p) == p[2]
\* The check_inactive_users task that lifespan starts with the server.
Evictor == <<"evictor", "server">>
\* The idle monitor task of an AI participant, and the task that
\* handle_chat_message creates for forward_message_to_ai with the n-th
\* message of the partner; the latter is in `proc` while it runs.
Gen(a) == <<"gen", a>>
GenTasks == {Gen(a) : a \in AIs}
Fwd(a, n) == <<"fwd", a, n>>

\* A task that is not inside a handler: pc is "off" (no connection yet),
\* "idle" (waiting in receive_json, or no delayed_pairing running) or
\* "closed" (the loop has ended).  Inside a handler, h is the handler, fin
\* the pc to take when it returns, k what follows the try_pairing call in
\* progress, and usr, par, sid, tsid, speech, ts the handler's locals.
ProcRest(pc) ==
    [pc |-> pc, h |-> "", fin |-> "idle", k |-> "", usr |-> None,
     par |-> None, sid |-> NoSid, tsid |-> NoSid, speech |-> <<>>, ts |-> 0]

\* The handler of task p returns.
Finish(s, p) == [s EXCEPT !.proc[p] = ProcRest(s.proc[p].fin)]

\* asyncio.create_task(delayed_pairing(user_id, delay))
ScheduleDelayed(s, user_id) ==
    [s EXCEPT !.timers = Append(@, <<"task", user_id>>)]

\* main.pair_with_ai: whether it got as far as writing `paired` (where it
\* is suspended before returning True) and the state after it.
\* manager.update_session and manager.update_activity are called without
\* await there, so the session of the user is not changed.
pair_with_ai(s, user_id) ==
    IF ~is_available(s)
    THEN [sent |-> FALSE, s |-> s]
    ELSE IF ~CatalogOk(s)
    THEN [sent |-> FALSE, s |-> s]
    ELSE LET session_id == generate_session_id(s)
             s1 == [s EXCEPT !.nextSid = session_id]
             r == create_ai_participant(s1, user_id, session_id)
         IN  IF r.ai_id = None
             THEN [sent |-> FALSE, s |-> s1]
             ELSE LET s2 == remove_from_queue(r.s, user_id)
                      s3 == create_ai_session(s2, r.ai_id, user_id, session_id)
                      s4 == create_conversation(s3, session_id,
                                                <<user_id, r.ai_id>>)
                  IN  [sent |-> TRUE,
                       s |-> send_json(s4, user_id, PairedFrame(session_id, 1))]

\* handle_reassign from "Clear user's pairing atomically" to the write of
\* `waiting`; handle_disconnect from "Remove from queue and disconnect" on
\* (manager.disconnect is called without await: the session and the
\* connection stay).
AfterEnd(s, p) ==
    LET u == Owner(p)
    IN  IF s.proc[p].h = "reassign"
        THEN LET s1 == clear_pairing_atomic(s, u).s
                 s2 == IF pairing_delay_enabled(s1) THEN add_delay(s1, u) ELSE s1
                 s3 == add_to_queue(s2, u)
                 s4 == send_json(s3, u, WaitingFrame(get_queue_position(s3, u)))
             IN  [s4 EXCEPT !.proc[p].pc = "u1"]
        ELSE Finish(remove_delay(remove_from_queue(s, u), u), p)

\* "End the conversation" of handle_reassign and handle_disconnect: up to
\* the file write of end_conversation, or on to AfterEnd when there is
\* nothing to end.
EndCode(s, p) ==
    LET sid == s.proc[p].sid
    IN  IF sid # NoSid /\ sid \in (DOMAIN s.conversations \cup DOMAIN s.disk)
        THEN [end_conversation_begin(s, sid) EXCEPT !.proc[p].pc = "end2"]
        ELSE AfterEnd(s, p)

\* delayed_pairing after its try_pairing call: the AI fallback, for the
\* user of the task.
DelayedAfter(s, p) ==
    LET u == Owner(p)
    IN  IF /\ HasSession(s, u)
           /\ ~s.sessions[u].paired
           /\ is_available(s) /\ force_ai_on_odd_users(s)
           /\ has_odd_user_waiting(s)
        THEN Finish(pair_with_ai(s, u).s, p)
        ELSE Finish(s, p)

\* What task p runs when try_pairing returns to its caller.
Cont(s, p) ==
    CASE s.proc[p].k = "end" -> EndCode(s, p)
      [] s.proc[p].k = "dl_after" -> DelayedAfter(s, p)
      [] OTHER -> Finish(s, p)

\* try_pairing returns right after a socket write: the task is suspended
\* in that write first.
YieldReturn(s, p) ==
    IF s.proc[p].k = "ret" THEN Finish(s, p) ELSE [s EXCEPT !.proc[p].pc = "cont"]

\* try_pairing that, with an empty catalog, puts only the requester back
\* into the queue.
try_pairing_drops_partner(s, p, user_id, k) ==
    LET s0 == [s EXCEPT !.proc[p].k = k, !.proc[p].usr = user_id]
        r == try_pair(s0, user_id)
    IN  IF r.partner_id = None
        THEN IF /\ is_available(r.s) /\ force_ai_on_odd_users(r.s)
                /\ has_odd_user_waiting(r.s)
                /\ get_odd_user(r.s) # None
             THEN LET a == pair_with_ai(r.s, get_odd_user(r.s))
                  IN  IF a.sent THEN YieldReturn(a.s, p) ELSE Cont(a.s, p)
             ELSE Cont(r.s, p)
        ELSE IF ~CatalogOk(r.s)
        THEN LET s1 == add_to_queue(r.s, user_id)
                 s2 == send_json(s1, user_id, ErrorFrame("No topics or tasks"))
             IN  [s2 EXCEPT !.proc[p].pc = "tp_err2",
                            !.proc[p].par = r.partner_id]
        ELSE LET session_id == generate_session_id(r.s)
                 s1 == [r.s EXCEPT !.nextSid = session_id]
                 pr == pair_users_atomic(s1, user_id, r.partner_id,
                                         session_id, 1, 2)
             IN  IF ~pr.ok
                 THEN Cont(add_to_queue(pr.s, user_id), p)
                 ELSE LET s2 == create_conversation(pr.s, session_id,
                                    <<user_id, r.partner_id>>)
                          s3 == send_json(s2, user_id,
                                          PairedFrame(session_id, 1))
                      IN  [s3 EXCEPT !.proc[p].pc = "tp_send2",
                                     !.proc[p].par = r.partner_id,
                                     !.proc[p].tsid = session_id]

\* main.try_pairing(user_id) called by task p, with k naming what follows
\* the call: up to its first socket write, or through its return when it
\* writes nothing.
try_pairing(s, p, user_id, k) ==
    LET s0 == [s EXCEPT !.proc[p].k = k, !.proc[p].usr = user_id]
        r == try_pair(s0, user_id)
    IN  IF r.partner_id = None
        THEN IF /\ is_available(r.s) /\ force_ai_on_odd_users(r.s)
                /\ has_odd_user_waiting(r.s)
                /\ get_odd_user(r.s) # None
             THEN LET a == pair_with_ai(r.s, get_odd_user(r.s))
                  IN  IF a.sent THEN YieldReturn(a.s, p) ELSE Cont(a.s, p)
             ELSE Cont(r.s, p)
        ELSE IF ~CatalogOk(r.s)
        THEN LET s1 == add_to_queue(add_to_queue(r.s, user_id), r.partner_id)
                 s2 == send_json(s1, user_id, ErrorFrame("No topics or tasks"))
             IN  [s2 EXCEPT !.proc[p].pc = "tp_err2",
                            !.proc[p].par = r.partner_id]
        ELSE LET session_id == generate_session_id(r.s)
                 s1 == [r.s EXCEPT !.nextSid = session_id]
                 pr == pair_users_atomic(s1, user_id, r.partner_id,
                                         session_id, 1, 2)
             IN  IF ~pr.ok
                 THEN Cont(add_to_queue(pr.s, user_id), p)
                 ELSE LET s2 == create_conversation(pr.s, session_id,
                                    <<user_id, r.partner_id>>)
                          s3 == send_json(s2, user_id,
                                          PairedFrame(session_id, 1))
                      IN  [s3 EXCEPT !.proc[p].pc = "tp_send2",
                                     !.proc[p].par = r.partner_id,
                                     !.proc[p].tsid = session_id]

\* try_pairing: the `paired` frame of the partner.
try_pairing_send2(s, p) ==
    YieldReturn(send_json(s, s.proc[p].par,
                          PairedFrame(s.proc[p].tsid, 2)), p)

\* try_pairing: the error frame of the partner when the catalog is empty.
try_pairing_err2(s, p) ==
    YieldReturn(send_json(s, s.proc[p].par,
                          ErrorFrame("No topics or tasks")), p)

\* main.handle_join
handle_join(s, p, consent) ==
    LET u == Owner(p)
    IN  IF ~consent
        THEN Finish(send_json(s, u, ErrorFrame("Consent required")), p)
        ELSE LET s1 == add_to_queue(s, u)
                 s2 == send_json(s1, u, WaitingFrame(get_queue_position(s1, u)))
             IN  [s2 EXCEPT !.proc[p].pc = "tp", !.proc[p].h = "join"]

\* handle_chat_message accepting every paired sender without looking at the
\* partner's session.
MutuallyPairedUnchecked(s, user_id) == TRUE

\* handle_chat_message, "verify mutual pairing to prevent cross-talk": the
\* partner's session exists and names the sender.
MutuallyPaired(s, user_id) ==
    LET partner_id == s.sessions[user_id].partner_id
    IN  HasSession(s, partner_id) /\ s.sessions[partner_id].partner_id = user_id

\* The partner's frame given the whole turn as it is recorded.
PartnerContentWithThink(think, speech) == Canonical(think, speech)

\* The content handle_chat_message gives the partner's frame: the speech.
PartnerContent(think, speech) == <<speech>>

\* handle_chat_message that hands the turn to the partner in its first
\* step, before anything is confirmed to the sender.
handle_chat_message_partner_first(s, p, think, speech) ==
    LET u == Owner(p)
    IN  IF ~HasSession(s, u) \/ ~s.sessions[u].paired
        THEN Finish(send_json(s, u, ErrorFrame("Not in an active chat session")), p)
        ELSE IF s.sessions[u].partner_id = None
        THEN Finish(send_json(s, u, ErrorFrame("Partner connection lost")), p)
        ELSE IF ~s.sessions[u].is_ai_partner /\ ~MutuallyPaired(s, u)
        THEN [send_json(s, u, ErrorFrame("Partner connection lost"))
                 EXCEPT !.proc[p].pc = "msg_clear", !.proc[p].h = "message"]
        ELSE IF ThinkLen(think) < MIN_THINK_CHARS
        THEN Finish(send_json(s, u, ErrorFrame("Think field too short")), p)
        ELSE IF Strip(speech) = ""
        THEN Finish(send_json(s, u, ErrorFrame("Speech field cannot be empty")), p)
        ELSE LET sid == s.sessions[u].session_id
                 s1 == add_message(s, sid, u, Canonical(think, speech))
                 ts == Turns(s1, sid)
             IN  Finish(send_to_partner(s1, u,
                     PartnerMessageFrame(PartnerContent(think, speech),
                                         sid, u, ts)), p)

\* handle_chat_message that records the turn before it validates think and
\* speech.
handle_chat_message_stores_first(s, p, think, speech) ==
    LET u == Owner(p)
    IN  IF ~HasSession(s, u) \/ ~s.sessions[u].paired
        THEN Finish(send_json(s, u, ErrorFrame("Not in an active chat session")), p)
        ELSE IF s.sessions[u].partner_id = None
        THEN Finish(send_json(s, u, ErrorFrame("Partner connection lost")), p)
        ELSE IF ~s.sessions[u].is_ai_partner /\ ~MutuallyPaired(s, u)
        THEN [send_json(s, u, ErrorFrame("Partner connection lost"))
                 EXCEPT !.proc[p].pc = "msg_clear", !.proc[p].h = "message"]
        ELSE LET sid == s.sessions[u].session_id
                 s1 == add_message(s, sid, u, Canonical(think, speech))
                 ts == Turns(s1, sid)
             IN  IF ThinkLen(think) < MIN_THINK_CHARS
                 THEN Finish(send_json(s1, u, ErrorFrame("Think field too short")), p)
                 ELSE IF Strip(speech) = ""
                 THEN Finish(send_json(s1, u, ErrorFrame("Speech field cannot be empty")), p)
                 ELSE [send_json(s1, u, MessageSentFrame(ts))
                          EXCEPT !.proc[p].pc = "msg_route",
                                 !.proc[p].h = "message",
                                 !.proc[p].par = s.sessions[u].partner_id,
                                 !.proc[p].sid = sid,
                                 !.proc[p].speech = PartnerContent(think, speech),
                                 !.proc[p].ts = ts]

\* main.handle_chat_message up to its first socket write.
handle_chat_message(s, p, think, speech) ==
    LET u == Owner(p)
    IN  IF ~HasSession(s, u) \/ ~s.sessions[u].paired
        THEN Finish(send_json(s, u, ErrorFrame("Not in an active chat session")), p)
        ELSE IF s.sessions[u].partner_id = None
        THEN Finish(send_json(s, u, ErrorFrame("Partner connection lost")), p)
        ELSE IF ~s.sessions[u].is_ai_partner /\ ~MutuallyPaired(s, u)
        THEN [send_json(s, u, ErrorFrame("Partner connection lost"))
                 EXCEPT !.proc[p].pc = "msg_clear", !.proc[p].h = "message"]
        ELSE IF ThinkLen(think) < MIN_THINK_CHARS
        THEN Finish(send_json(s, u, ErrorFrame("Think field too short")), p)
        ELSE IF Strip(speech) = ""
        THEN Finish(send_json(s, u, ErrorFrame("Speech field cannot be empty")), p)
        ELSE LET sid == s.sessions[u].session_id
                 s1 == add_message(s, sid, u, Canonical(think, speech))
                 ts == Turns(s1, sid)
                 s2 == send_json(s1, u, MessageSentFrame(ts))
             IN  [s2 EXCEPT !.proc[p].pc = "msg_route",
                            !.proc[p].h = "message",
                            !.proc[p].par = s.sessions[u].partner_id,
                            !.proc[p].sid = sid,
                            !.proc[p].speech = PartnerContent(think, speech),
                            !.proc[p].ts = ts]

\* handle_chat_message: clearing the broken pairing after the error frame.
handle_chat_message_clear(s, p) ==
    Finish(clear_pairing_atomic(s, Owner(p)).s, p)

\* handle_chat_message after message_sent: the turn goes to the AI or to
\* the human partner.
handle_chat_message_route(s, p) ==
    LET u == Owner(p)
        l == s.proc[p]
    IN  IF s.sessions[u].is_ai_partner
        THEN Finish(forward_message_to_ai(s, l.par, l.speech), p)
        ELSE Finish(send_to_partner(s, u,
                 PartnerMessageFrame(l.speech, l.sid, u, l.ts)), p)

\* LeaveStart that clears the partner's side without telling it.
LeaveStartSilent(s, p, h, fin) ==
    LET u == Owner(p)
        s0 == [s EXCEPT !.proc[p].h = h, !.proc[p].fin = fin]
        sess == s.sessions[u]
    IN  IF ~HasSession(s, u)
        THEN AfterEnd(s0, p)
        ELSE IF h = "reassign" /\ ~sess.paired
        THEN AfterEnd(s0, p)
        ELSE LET s1 == [s0 EXCEPT !.proc[p].par = sess.partner_id,
                                  !.proc[p].sid = sess.session_id]
             IN  IF sess.partner_id = None \/ ~sess.paired
                 THEN EndCode(s1, p)
                 ELSE IF sess.is_ai_partner
                 THEN EndCode(remove_ai_session(
                          remove_ai_participant(s1, sess.partner_id),
                          sess.partner_id), p)
                 ELSE LET c == clear_pairing_atomic(s1, sess.partner_id)
                      IN  IF c.partner_id # None
                          THEN [c.s EXCEPT !.proc[p].pc = "p1"]
                          ELSE EndCode(c.s, p)

\* handle_reassign and handle_disconnect up to their first suspension: the
\* partner's side is cleared and told `partner_left`.
LeaveStart(s, p, h, fin) ==
    LET u == Owner(p)
        s0 == [s EXCEPT !.proc[p].h = h, !.proc[p].fin = fin]
        sess == s.sessions[u]
    IN  IF ~HasSession(s, u)
        THEN AfterEnd(s0, p)
        ELSE IF h = "reassign" /\ ~sess.paired
        THEN AfterEnd(s0, p)
        ELSE LET s1 == [s0 EXCEPT !.proc[p].par = sess.partner_id,
                                  !.proc[p].sid = sess.session_id]
             IN  IF sess.partner_id = None \/ ~sess.paired
                 THEN EndCode(s1, p)
                 ELSE IF sess.is_ai_partner
                 THEN EndCode(remove_ai_session(
                          remove_ai_participant(s1, sess.partner_id),
                          sess.partner_id), p)
                 ELSE LET c == clear_pairing_atomic(s1, sess.partner_id)
                      IN  IF c.partner_id # None
                          THEN [send_json(c.s, sess.partner_id, PartnerLeftFrame)
                                   EXCEPT !.proc[p].pc = "p1"]
                          ELSE EndCode(c.s, p)

\* LeaveRequeuePartner that tells the partner `waiting` and forgets to put
\* it into the queue.
LeaveRequeuePartnerNoQueue(s, p) ==
    LET partner_id == s.proc[p].par
        s1 == IF pairing_delay_enabled(s) THEN add_delay(s, partner_id) ELSE s
        s3 == send_json(s1, partner_id,
                        WaitingFrame(get_queue_position(s1, partner_id)))
    IN  [s3 EXCEPT !.proc[p].pc = "p2"]

\* The partner is given its delay, queued again and told `waiting`.
LeaveRequeuePartner(s, p) ==
    LET partner_id == s.proc[p].par
        s1 == IF pairing_delay_enabled(s) THEN add_delay(s, partner_id) ELSE s
        s2 == add_to_queue(s1, partner_id)
        s3 == send_json(s2, partner_id,
                        WaitingFrame(get_queue_position(s2, partner_id)))
    IN  [s3 EXCEPT !.proc[p].pc = "p2"]

\* The partner's next pairing: a delayed_pairing task, or try_pairing now.
LeavePairPartner(s, p) ==
    IF pairing_delay_enabled(s)
    THEN EndCode(ScheduleDelayed(s, s.proc[p].par), p)
    ELSE try_pairing(s, p, s.proc[p].par, "end")

\* end_conversation resumes: the file is written, the cache entry dropped,
\* and the handler goes on.
LeaveEndFinish(s, p) ==
    AfterEnd(end_conversation_finish(s, s.proc[p].sid), p)

\* handle_reassign after the user's `waiting` frame.
ReassignPairSelf(s, p) ==
    IF pairing_delay_enabled(s)
    THEN Finish(ScheduleDelayed(s, Owner(p)), p)
    ELSE try_pairing(s, p, Owner(p), "ret")

\* delayed_pairing that calls try_pairing whatever it finds.
delayed_pairing_unconditional(s, p) ==
    try_pairing([s EXCEPT !.timers = Tail(@), !.proc[p].h = "delayed"],
                p, Owner(p), "dl_after")

\* main.delayed_pairing once its sleep is over.
delayed_pairing(s, p) ==
    LET u == Owner(p)
        s0 == [s EXCEPT !.timers = Tail(@), !.proc[p].h = "delayed"]
    IN  IF ~HasSession(s, u) \/ s.sessions[u].paired
        THEN Finish(s0, p)
        ELSE IF get_queue_position(s, u) = 0
        THEN Finish(s0, p)
        ELSE try_pairing(s0, p, u, "dl_after")

\* main.check_inactive_users when its first sleep is over:
\* manager.get_inactive_users is called without await, the `for` statement
\* gets a coroutine object and raises TypeError, and the task ends.
check_inactive_users(s) == [s EXCEPT !.proc[Evictor] = ProcRest("closed")]

\* handle_ai_message that finds the partner and the session of an AI in
\* the conversation record when the registry does not know the AI.
handle_ai_message_from_record(s, ai_id, think, speech) ==
    LET known == {sid \in DOMAIN s.disk :
                     Len(s.disk[sid].participants) = 2
                     /\ s.disk[sid].participants[2] = ai_id}
    IN  IF known = {}
        THEN s
        ELSE LET session_id == CHOOSE sid \in known : TRUE
                 partner_id == s.disk[session_id].participants[1]
                 s1 == add_message(s, session_id, ai_id,
                                   Canonical(think, speech))
             IN  send_json(s1, partner_id,
                     PartnerMessageFrame(<<speech>>, session_id, ai_id,
                                         Turns(s1, session_id)))

\* main.handle_ai_message, called by an AI participant with a turn it made
\* (here by its idle monitor).
handle_ai_message(s, ai_id, think, speech) ==
    IF ai_id \notin DOMAIN s.participants
    THEN s
    ELSE LET st == s.participants[ai_id]
             s1 == add_message(s, st.session_id, ai_id, Canonical(think, speech))
         IN  send_json(s1, st.partner_id,
                 PartnerMessageFrame(<<speech>>, st.session_id, ai_id,
                                     Turns(s1, st.session_id)))

\* ---------------------------------------------------------------- actions
\* The configurations the server may start with: AI participants enabled
\* with force_ai_on_odd_users, with a provider initialised or with none, or
\* disabled; the pairing delay enabled or not; the topic/task catalog
\* filled, or empty (taken with neither AI nor delay).
Configs ==
    {c \in [ai_enabled : BOOLEAN, providers_ok : BOOLEAN, force_ai : BOOLEAN,
            delay_enabled : BOOLEAN, catalog_ok : BOOLEAN,
            max_ai : {MaxAIParticipants}] :
        /\ c.providers_ok => c.ai_enabled
        /\ c.force_ai = c.ai_enabled
        /\ (c.ai_enabled \/ c.delay_enabled) => c.catalog_ok}

\* The server after startup: no connection, an empty queue, no conversation.
Init ==
    /\ sessions = <<>>
    /\ connections = {}
    /\ wsOpen = [u \in Users |-> FALSE]
    /\ ai_sessions = <<>>
    /\ queue = <<>>
    /\ timers = <<>>
    /\ participants = <<>>
    /\ conversations = <<>>
    /\ disk = <<>>
    /\ nextSid = 0
    /\ proc = [p \in Procs \cup {Evictor} \cup GenTasks |->
                   ProcRest(IF p[1] = "disp" THEN "off" ELSE "idle")]
    /\ recv = NoFrame
    /\ wrote = NoFrame
    /\ pairedSeen = [u \in Users |-> NoSid]
    /\ events = 0
    /\ cfg \in Configs
    /\ held = [session |-> {}, queue |-> {}]

\* The dispatcher of u waits in receive_json on an open transport.
Receiving(u) ==
    /\ proc[Disp(u)].pc = "idle"
    /\ wsOpen[u]
    /\ events < MaxEvents

\* websocket_endpoint: receive_json returns the frame a client sent.
Received(s, user_id, frame) ==
    [s EXCEPT !.recv = [from |-> user_id, frame |-> frame, type |-> frame.type]]

\* Received, counted as one of the events of the behaviour.
Event(s, user_id, frame) ==
    [Received(s, user_id, frame) EXCEPT !.events = @ + 1]

\* websocket_endpoint: a client connects.  generate_user_id draws a fresh
\* id, so the clients are named in the order they connect.
Connect(u) ==
    /\ proc[Disp(u)].pc = "off"
    /\ \A v \in Users : UserOrder[v] < UserOrder[u] => proc[Disp(v)].pc # "off"
    /\ Commit(connect([Cur EXCEPT !.proc[Disp(u)].pc = "idle"], u))

\* A `join` frame arrives.
RecvJoin(u) ==
    /\ Receiving(u)
    /\ \E consent \in BOOLEAN : Commit(handle_join(Event(Cur, u, JoinFrame(consent)), Disp(u), consent))

\* A `message` frame arrives.
RecvMessage(u) ==
    /\ Receiving(u)
    /\ \E think \in Thinks, speech \in Speeches :
           Commit(handle_chat_message(Event(Cur, u, MessageFrame(think, speech)),
                                      Disp(u), think, speech))

\* A `reassign` frame arrives.
RecvReassign(u) ==
    /\ Receiving(u)
    /\ Commit(LeaveStart(Event(Cur, u, ReassignFrame), Disp(u),
                         "reassign", "idle"))

\* A `disconnect` frame arrives: handle_disconnect runs and the loop of
\* websocket_endpoint goes on to the next receive_json.
RecvDisconnect(u) ==
    /\ Receiving(u)
    /\ Commit(LeaveStart(Event(Cur, u, DisconnectFrame), Disp(u),
                         "disconnect", "idle"))

\* The transport closes while the dispatcher waits for a frame:
\* receive_json raises WebSocketDisconnect, handle_disconnect runs and the
\* loop ends.
TransportClose(u) ==
    /\ Receiving(u)
    /\ Commit(LeaveStart([Cur EXCEPT !.wsOpen[u] = FALSE,
                                      !.events = @ + 1],
                          Disp(u), "disconnect", "closed"))

\* handle_join resumes after its `waiting` frame: try_pairing.
JoinTryPairing(p) ==
    /\ proc[p].pc = "tp"
    /\ Commit(try_pairing(Cur, p, Owner(p), "ret"))

PairedToPartner(p) ==
    /\ proc[p].pc = "tp_send2"
    /\ Commit(try_pairing_send2(Cur, p))

ErrorToPartner(p) ==
    /\ proc[p].pc = "tp_err2"
    /\ Commit(try_pairing_err2(Cur, p))

\* A task resumes in the caller of try_pairing.
Resume(p) ==
    /\ proc[p].pc = "cont"
    /\ Commit(Cont(Cur, p))

MessageClear(p) ==
    /\ proc[p].pc = "msg_clear"
    /\ Commit(handle_chat_message_clear(Cur, p))

MessageRoute(p) ==
    /\ proc[p].pc = "msg_route"
    /\ Commit(handle_chat_message_route(Cur, p))

RequeuePartner(p) ==
    /\ proc[p].pc = "p1"
    /\ Commit(LeaveRequeuePartner(Cur, p))

PairPartner(p) ==
    /\ proc[p].pc = "p2"
    /\ Commit(LeavePairPartner(Cur, p))

EndFinish(p) ==
    /\ proc[p].pc = "end2"
    /\ Commit(LeaveEndFinish(Cur, p))

PairSelf(p) ==
    /\ proc[p].pc = "u1"
    /\ Commit(ReassignPairSelf(Cur, p))

\* Time reaches the next deadline, the sleep of a delayed_pairing task of
\* u: the task runs.  One delayed_pairing task of a user runs at a time.
DelayedPairing(u) ==
    /\ timers # <<>>
    /\ Head(timers) = <<"task", u>>
    /\ proc[DTask(u)].pc = "idle"
    /\ Commit(delayed_pairing([Cur EXCEPT !.recv = [type |-> "wakeup",
                                                    from |-> u]],
                              DTask(u)))

\* Time reaches the next deadline, the end of the delay of u.
Expire(u) ==
    /\ timers # <<>>
    /\ Head(timers) = <<"delay", u>>
    /\ Commit(remove_delay(Cur, u))

\* Sixty seconds after startup: the first tick of check_inactive_users.  The
\* tick changes nothing but the task itself, so only EvictSpec takes it.
EvictorTick ==
    /\ proc[Evictor].pc = "idle"
    /\ Commit(check_inactive_users(Cur))

\* The idle monitor of an AI participant produces a re-engagement turn and
\* hands it to on_message.
AIIdleTurn(a) ==
    /\ a \in DOMAIN participants
    /\ participants[a].is_active
    /\ events < MaxEvents
    /\ Commit(handle_ai_message(
           [Cur EXCEPT !.events = @ + 1,
                       !.participants[a].memory = Append(@, <<"assistant", 0>>)],
           a, AIThink, AISpeech))

Next ==
    \/ \E u \in Users : Connect(u)
    \/ \E u \in Users : RecvJoin(u)
    \/ \E u \in Users : RecvMessage(u)
    \/ \E u \in Users : RecvReassign(u)
    \/ \E u \in Users : RecvDisconnect(u)
    \/ \E u \in Users : TransportClose(u)
    \/ \E p \in Procs : JoinTryPairing(p)
    \/ \E p \in Procs : PairedToPartner(p)
    \/ \E p \in Procs : ErrorToPartner(p)
    \/ \E p \in Procs : Resume(p)
    \/ \E p \in Procs : MessageClear(p)
    \/ \E p \in Procs : MessageRoute(p)
    \/ \E p \in Procs : RequeuePartner(p)
    \/ \E p \in Procs : PairPartner(p)
    \/ \E p \in Procs : EndFinish(p)
    \/ \E p \in Procs : PairSelf(p)
    \/ \E u \in Users : DelayedPairing(u)
    \/ \E u \in Users : Expire(u)
    \/ \E a \in AIs : AIIdleTurn(a)

Spec == Init /\ [][Next]_vars

\* No handler and no delayed_pairing task is between its first and its last
\* step.
Quiescent == \A p \in Procs : proc[p].pc \in {"off", "idle", "closed"}

\* -------------------------------------------------------------- properties
\* The human sessions that name the AI participant ai_id as their partner.
HumansOf(ai_id) ==
    {u \in DOMAIN sessions :
        sessions[u].is_ai_partner /\ sessions[u].partner_id = ai_id}

\* C1 (I2, mutual pairing): whenever no handler is mid-execution, every
\* session A with partner_id = B and is_ai_partner = false has a partner
\* session B that exists, is paired, names A and has A's session_id.
C1_MutualPairing ==
    Quiescent =>
        \A a \in DOMAIN sessions :
            LET b == sessions[a].partner_id
            IN  (b # None /\ ~sessions[a].is_ai_partner) =>
                    /\ b \in DOMAIN sessions
                    /\ sessions[b].paired
                    /\ sessions[b].partner_id = a
                    /\ sessions[b].session_id = sessions[a].session_id

\* C2 (I3, queue/pairing exclusivity): every user_id in the wait queue has
\* a session, and that session is not paired.
C2_QueueExclusive ==
    \A i \in 1..Len(queue) :
        queue[i] \in DOMAIN sessions /\ ~sessions[queue[i]].paired

\* C3 (I4, AI session correspondence): whenever no handler is
\* mid-execution, every AI session and every AI participant of the
\* registry is the partner of exactly one human session with
\* is_ai_partner = true, and every such human session names an existing AI
\* session.
C3_AISessionCorrespondence ==
    Quiescent =>
        /\ \A a \in DOMAIN ai_sessions \cup DOMAIN participants :
               Cardinality(HumansOf(a)) = 1
        /\ \A u \in DOMAIN sessions :
               sessions[u].is_ai_partner =>
                   sessions[u].partner_id \in DOMAIN ai_sessions

\* C4 (I1, pairing-field coherence): in every reachable state and for every
\* session, paired, partner_id # null, session_id # null and task # null
\* are all true or all false.
C4_FieldCoherence ==
    \A u \in DOMAIN sessions :
        LET x == sessions[u]
        IN  /\ x.paired <=> (x.partner_id # None)
            /\ x.paired <=> (x.session_id # NoSid)
            /\ x.paired <=> (x.task # NoTask)

\* C4 is exercised: one session is paired while another, paired earlier,
\* has been cleared.
C4_Witness ==
    \E u, v \in DOMAIN sessions :
        /\ sessions[u].paired
        /\ ~sessions[v].paired
        /\ pairedSeen[v] # NoSid

\* C7 (session destroyed on disconnect): once the transport of U is closed
\* and handle_disconnect has returned, U has no session, no connection
\* entry and no place in the wait queue.
C7_SessionDestroyed ==
    \A u \in Users :
        proc[Disp(u)].pc = "closed" =>
            /\ u \notin DOMAIN sessions
            /\ u \notin connections
            /\ ~InQueue(Cur, u)

\* A `join` frame with consent from a client that is neither waiting nor
\* paired.  The state bounds these frames: they are not counted in events.
FreshJoin(u) ==
    /\ proc[Disp(u)].pc = "idle"
    /\ wsOpen[u]
    /\ ~sessions[u].paired
    /\ ~InQueue(Cur, u)
    /\ Commit(handle_join(Received(Cur, u, JoinFrame(TRUE)), Disp(u), TRUE))

\* The pair race: the server runs without AI fallback and with a non-empty
\* catalog, and the clients send `join` with consent once, and nothing else.
RaceInit == Init /\ ~cfg.ai_enabled /\ cfg.catalog_ok

RaceNext ==
    \/ \E u \in Users : Connect(u)
    \/ \E u \in Users : FreshJoin(u)
    \/ \E p \in Procs : JoinTryPairing(p)
    \/ \E p \in Procs : PairedToPartner(p)

RaceSpec == RaceInit /\ [][RaceNext]_vars

\* All three joins have been handled to the end.
RaceOver ==
    /\ Quiescent
    /\ \A u \in Users :
           u \in DOMAIN sessions /\ (sessions[u].paired \/ InQueue(Cur, u))

\* a and b are paired with each other under one session_id.
PairedTogether(a, b) ==
    /\ sessions[a].paired /\ sessions[b].paired
    /\ sessions[a].partner_id = b /\ sessions[b].partner_id = a
    /\ sessions[a].session_id = sessions[b].session_id

\* C5 (concurrent pair race): when A, B and C join with consent and their
\* handlers interleave in any way, no user is ever paired a second time
\* (one session id is drawn, and every paired session carries it), and once
\* the three handlers are over exactly two users are paired with each
\* other and the third is unpaired and alone in the queue, at position 1.
C5_PairRace ==
    /\ nextSid <= 1
    /\ \A u \in DOMAIN sessions : sessions[u].paired => sessions[u].session_id = 1
    /\ RaceOver =>
           \E a, b, c \in Users :
               /\ Cardinality({a, b, c}) = 3
               /\ PairedTogether(a, b)
               /\ ~sessions[c].paired
               /\ queue = <<c>>
               /\ get_queue_position(Cur, c) = 1

\* C5 is exercised: the race is over, with a pair and one user waiting.
C5_Witness ==
    /\ RaceOver
    /\ Len(queue) = 1
    /\ \E a, b \in Users : a # b /\ PairedTogether(a, b)

\* Conversations between well-behaved senders and clients that send
\* `disconnect` frames and stay connected: no AI fallback, no pairing delay,
\* a non-empty catalog; a client joins when it is neither waiting nor
\* paired, sends well-formed messages while its session is paired, and may
\* send `disconnect` at any time.
TalkInit == Init /\ ~cfg.ai_enabled /\ ~cfg.delay_enabled /\ cfg.catalog_ok

TalkReceiving(u) ==
    /\ proc[Disp(u)].pc = "idle"
    /\ wsOpen[u]
    /\ events < MaxTalkEvents

TalkMessage(u) ==
    /\ TalkReceiving(u)
    /\ sessions[u].paired
    /\ Commit(handle_chat_message(
           Event(Cur, u, MessageFrame("considering", "Hi")), Disp(u),
           "considering", "Hi"))

TalkDisconnect(u) ==
    /\ TalkReceiving(u)
    /\ Commit(LeaveStart(Event(Cur, u, DisconnectFrame), Disp(u),
                         "disconnect", "idle"))

TalkNext ==
    \/ \E u \in Users : Connect(u)
    \/ \E u \in Users : FreshJoin(u)
    \/ \E u \in Users : TalkMessage(u)
    \/ \E u \in Users : TalkDisconnect(u)
    \/ \E p \in Procs : JoinTryPairing(p)
    \/ \E p \in Procs : PairedToPartner(p)
    \/ \E p \in Procs : Resume(p)
    \/ \E p \in Procs : MessageClear(p)
    \/ \E p \in Procs : MessageRoute(p)
    \/ \E p \in Procs : RequeuePartner(p)
    \/ \E p \in Procs : PairPartner(p)
    \/ \E p \in Procs : EndFinish(p)

TalkSpec == TalkInit /\ [][TalkNext]_vars

\* u names a partner whose session names u.
Mutual(u) ==
    LET v == sessions[u].partner_id
    IN  v \in DOMAIN sessions /\ sessions[v].partner_id = u

\* The sender u is in send_to_partner, about to resolve its partner.
Routing(u) == proc[Disp(u)].pc = "msg_route"

\* C6 (no cross-talk): a partner_message frame that comes from human U is
\* written only to the V that U's session names and whose session names U
\* at the moment send_to_partner resolves the partner; and when the
\* partner does not name U at that moment, send_to_partner writes nothing.
C6_NoCrossTalk ==
    [][/\ (wrote'.type = "partner_message" /\ wrote'.frame.from \in Users) =>
              /\ sessions[wrote'.frame.from].partner_id = wrote'.to
              /\ sessions[wrote'.to].partner_id = wrote'.frame.from
       /\ \A u \in Users :
              (Routing(u) /\ ~Routing(u)' /\ ~Mutual(u)) =>
                  wrote'.type = "none"]_vars

\* C6 is exercised: a sender is about to resolve a partner whose session
\* was given away while the sender was suspended.
C6_Witness ==
    \E u \in Users :
        /\ Routing(u)
        /\ sessions[u].partner_id # None
        /\ ~Mutual(u)

\* The frame just received is a well-formed message of u, and u is paired
\* with a partner that names it.
ValidFromPaired(u) ==
    /\ recv'.type = "message" /\ recv'.from = u
    /\ ThinkLen(recv'.frame.think) >= MIN_THINK_CHARS
    /\ Strip(recv'.frame.speech) # ""
    /\ sessions[u].paired
    /\ Mutual(u)

\* C8 (valid message effect and think privacy): a message with
\* len(think) >= MIN_THINK_CHARS and a non-blank speech from a mutually
\* paired U appends exactly one entry, with role U and content
\* <think>T</think>S, to the conversation of U's session, and U is written
\* message_sent; and a partner_message carries the speech of the recorded
\* turn it delivers and nothing of its think, from a human as from an AI.
C8_MessageEffect ==
    [][/\ \A u \in Users :
              ValidFromPaired(u) =>
                  LET sid == sessions[u].session_id
                      entry == [role |-> u,
                                content |-> Canonical(recv'.frame.think,
                                                      recv'.frame.speech)]
                  IN  /\ disk'[sid].messages = Append(disk[sid].messages, entry)
                      /\ conversations'[sid].messages = disk'[sid].messages
                      /\ \A x \in DOMAIN disk \ {sid} : disk'[x] = disk[x]
                      /\ wrote'.type = "message_sent" /\ wrote'.to = u
       /\ wrote'.type = "partner_message" =>
              LET f == wrote'.frame
                  entry == disk'[f.sid].messages[f.timestamp]
              IN  /\ entry.role = f.from
                  /\ f.content = <<entry.content[4]>>
                  /\ \A i \in 1..Len(f.content) :
                         f.content[i] # entry.content[2]]_vars

\* C8 is exercised: the speech of a recorded human turn has reached the
\* partner.
C8_Witness ==
    /\ wrote.type = "partner_message"
    /\ wrote.frame.from \in Users
    /\ Len(disk[wrote.frame.sid].messages) >= 1

\* ended_at is set on the record of session_id, in the cache or on disk.
Ended(session_id) ==
    \/ disk[session_id].ended_at
    \/ /\ session_id \in DOMAIN conversations
       /\ conversations[session_id].ended_at

\* C9 (I5, ended conversations are read-only): a session_id keeps the one
\* record it was created with, and once ended_at is set no step adds a
\* message to the record or puts it back into the memory cache.
C9_EndedReadOnly ==
    [][\A sid \in DOMAIN disk :
           /\ sid \in DOMAIN disk'
           /\ disk'[sid].participants = disk[sid].participants
           /\ Ended(sid) =>
                  /\ disk'[sid].messages = disk[sid].messages
                  /\ sid \in DOMAIN conversations' =>
                         /\ sid \in DOMAIN conversations
                         /\ conversations'[sid].messages =
                                conversations[sid].messages]_vars

\* C9 is exercised: a sender whose session still carries the id of an
\* ended conversation has sent a message, and it was refused.
C9_Witness ==
    \E u \in DOMAIN sessions :
        /\ proc[Disp(u)].pc = "msg_clear"
        /\ sessions[u].session_id \in DOMAIN disk
        /\ disk[sessions[u].session_id].ended_at

\* C10 (paired before message): a user that is written a partner_message
\* of its human partner has been written the `paired` frame of the session
\* it is in.
C10_PairedBeforeMessage ==
    (wrote.type = "partner_message" /\ wrote.frame.from \in Users) =>
        pairedSeen[wrote.to] = sessions[wrote.to].session_id

\* The task whose code the step runs belongs to somebody other than v.
ByOther(v) == \E p \in Procs : Owner(p) # v /\ proc'[p] # proc[p]

\* C11 (partner_left before waiting): the step in which the handler of a
\* reassign or disconnect of another user clears the pairing of v writes
\* `partner_left` to v, and the `waiting` frame such a handler writes to v
\* comes from the step after that one; so v is written `partner_left`
\* before any later `waiting` frame.
C11_PartnerLeftFirst ==
    [][\A v \in DOMAIN sessions :
           /\ (sessions[v].paired /\ ~sessions'[v].paired /\ ByOther(v)) =>
                  /\ wsOpen[v] =>
                         wrote'.type = "partner_left" /\ wrote'.to = v
                  /\ wrote'.type # "waiting"
                  /\ \E p \in Procs :
                         proc'[p].pc = "p1" /\ proc'[p].par = v
           /\ (wrote'.type = "waiting" /\ wrote'.to = v /\ ByOther(v)) =>
                  \E p \in Procs :
                      /\ proc[p].pc = "p1" /\ proc[p].par = v
                      /\ proc'[p].pc = "p2"]_vars

\* C11 is exercised: a handler of its partner has written `waiting` to a
\* user whose pairing it cleared.
C11_Witness ==
    /\ wrote.type = "waiting"
    /\ \E p \in Procs :
           /\ proc[p].pc = "p2"
           /\ proc[p].par = wrote.to
           /\ Owner(p) # wrote.to
           /\ pairedSeen[wrote.to] # NoSid

\* C12 (message_sent before reply): the handler of a message of U writes
\* message_sent to U in the step that records the turn, and the
\* partner_message of that turn is written by the next step of the same
\* handler; the partner sees the turn, and can answer it, only after U was
\* written message_sent for it.
C12_SentBeforeReply ==
    [][/\ (wrote'.type = "partner_message" /\ wrote'.frame.from \in Users) =>
              LET l == proc[Disp(wrote'.frame.from)]
              IN  /\ l.pc = "msg_route"
                  /\ l.ts = wrote'.frame.timestamp
                  /\ l.sid = wrote'.frame.sid
       /\ \A u \in Users :
              (proc'[Disp(u)].pc = "msg_route" /\ proc[Disp(u)].pc # "msg_route") =>
                  /\ wrote'.type = "message_sent" /\ wrote'.to = u
                  /\ wrote'.frame.timestamp = proc'[Disp(u)].ts]_vars

\* C12 is exercised: a user has been written the partner's turn that
\* follows a turn of its own in the conversation.
C12_Witness ==
    /\ wrote.type = "partner_message"
    /\ wrote.frame.from \in Users
    /\ wrote.frame.timestamp >= 2
    /\ disk[wrote.frame.sid].messages[wrote.frame.timestamp - 1].role = wrote.to

\* All pairing fields of the session of u are reset.
Cleared(u) ==
    /\ ~sessions[u].paired
    /\ sessions[u].partner_id = None
    /\ sessions[u].session_id = NoSid
    /\ sessions[u].task = NoTask

\* The reassignment scenario: only A and B are connected, their two joins
\* paired them with each other (which emptied the queue), and the third
\* frame the server handles is the `reassign` of u, in whose handler the
\* server is; the other client sends nothing meanwhile.
InReassignScenario(u) ==
    /\ DOMAIN sessions = {"A", "B"}
    /\ events = 3
    /\ proc[Disp(u)].h = "reassign"
    /\ proc[Disp(u)].sid # NoSid
    /\ \A w \in Users \ {u} : proc[Disp(w)].pc \in {"idle", "off"}

\* C13 (reassignment scenario): in the scenario the handler of A's
\* `reassign` first writes `partner_left` to B, writes `waiting` to B only
\* after that, every `waiting` frame written carries position 1, and when
\* the handler returns the conversation has ended_at set and the sessions
\* of A and B have all pairing fields cleared.
C13_ReassignScenario ==
    [][\A u \in Users :
           /\ InReassignScenario(u)' =>
                  LET v == CHOOSE w \in {"A", "B"} : w # u
                  IN  /\ proc[Disp(u)].pc = "idle" =>
                             wrote'.type = "partner_left" /\ wrote'.to = v
                      /\ (wrote'.type = "waiting" /\ wrote'.to = v) =>
                             proc[Disp(u)].pc = "p1"
                      /\ wrote'.type = "waiting" => wrote'.frame.position = 1
           /\ (InReassignScenario(u) /\ proc'[Disp(u)].pc = "idle") =>
                  /\ disk'[proc[Disp(u)].sid].ended_at
                  /\ \A w \in {"A", "B"} : Cleared(w)']_vars

\* The step takes a `disconnect` frame of u, or finds its transport closed,
\* and starts handle_disconnect.
DisconnectStep(u) ==
    /\ proc[Disp(u)].pc = "idle"
    /\ \/ recv'.type = "disconnect" /\ recv'.from = u
       \/ wsOpen[u] /\ ~wsOpen'[u]

C15_AIFallbackResult ==
    [][\A a \in AIs :
           /\ (a \notin DOMAIN ai_sessions /\ a \in DOMAIN ai_sessions') =>
                  LET x == sessions'[ai_sessions'[a].partner_id]
                  IN  /\ x.paired /\ x.partner_id = a /\ x.is_ai_partner
                      /\ x.session_id = ai_sessions'[a].session_id
                      /\ x.task # NoTask
                      /\ \A i \in 1..Len(queue') :
                             queue'[i] # ai_sessions'[a].partner_id
           /\ (/\ a \in DOMAIN ai_sessions
               /\ recv'.type = "message"
               /\ recv'.from = ai_sessions[a].partner_id
               /\ pairedSeen[recv'.from] = ai_sessions[a].session_id
               /\ ThinkLen(recv'.frame.think) >= MIN_THINK_CHARS
               /\ Strip(recv'.frame.speech) # "") =>
                  wrote'.type = "message_sent"]_vars

\* The server with its inactivity evictor: clients join and are paired
\* while the time of the first tick comes.
EvictNext ==
    \/ \E u \in Users : Connect(u)
    \/ \E u \in Users : FreshJoin(u)
    \/ \E p \in Procs : JoinTryPairing(p)
    \/ \E p \in Procs : PairedToPartner(p)
    \/ EvictorTick

EvictSpec == RaceInit /\ [][EvictNext]_vars

\* C16 (inactivity eviction happens): check_inactive_users keeps ticking
\* for the lifetime of the server, that is, the task never ends; so a
\* paired session whose last_activity stays older than the timeout meets a
\* later tick, at which it is sent inactivity_kick and evicted.
C16_EvictorKeepsTicking == proc[Evictor].pc = "idle"

\* C17 (activity tracking): the step that handles a well-formed message of
\* a paired U, or a `join` of U with consent, leaves U.last_activity equal
\* to the time of that step.
C17_ActivityStamped ==
    [][\A u \in Users :
           (\/ ValidFromPaired(u)
            \/ /\ recv'.type = "join" /\ recv'.from = u
               /\ recv'.frame.consent) =>
               sessions'[u].last_activity = Now(Cur)']_vars

\* ------------------------------------------------------- service calls
\* The operations of the session table and of the wait queue one call at a
\* time, from every table of unpaired sessions and every queue and set of
\* delays: the calls reach the paired, the half-cleared and the refused
\* cases themselves.
\* The sequences without repetition over S.
Arrangements(S) ==
    {q \in UNION {[1..n -> S] : n \in 0..Cardinality(S)} :
        \A i, j \in 1..Len(q) : i # j => q[i] # q[j]}

UnitInit ==
    /\ \E n \in 0..Cardinality(Users) :
           LET S == {u \in Users : UserOrder[u] <= n}
           IN  /\ sessions = [u \in S |-> UserSession]
               /\ connections = S
               /\ wsOpen = [u \in Users |-> u \in S]
               /\ proc = [p \in Procs \cup {Evictor} \cup GenTasks |->
                              ProcRest(IF p[1] = "disp" /\ Owner(p) \notin S
                                       THEN "off" ELSE "idle")]
               /\ queue \in Arrangements(S)
               /\ \E d \in Arrangements(S) :
                      timers = [i \in 1..Len(d) |-> <<"delay", d[i]>>]
    /\ ai_sessions = <<>>
    /\ participants = <<>>
    /\ conversations = <<>>
    /\ disk = <<>>
    /\ nextSid = 0
    /\ recv = NoFrame
    /\ wrote = NoFrame
    /\ pairedSeen = [u \in Users |-> NoSid]
    /\ events = 0
    /\ cfg \in {c \in Configs : ~c.ai_enabled /\ c.delay_enabled}
    /\ held = [session |-> {}, queue |-> {}]

\* manager.pair_users_atomic(a, b, session_id, 1, 2) with a fresh session id.
UnitPair(a, b) ==
    /\ a # b
    /\ nextSid < MaxPairCalls
    /\ LET sid == generate_session_id(Cur)
           r == pair_users_atomic([Cur EXCEPT !.nextSid = sid], a, b, sid, 1, 2)
       IN  Commit([r.s EXCEPT !.recv =
               [type |-> "pair_users_atomic", user_id |-> a, partner_id |-> b,
                session_id |-> sid, ret |-> r.ok]])

\* manager.clear_pairing_atomic(u)
UnitClear(u) ==
    /\ u \in Users
    /\ LET r == clear_pairing_atomic(Cur, u)
       IN  Commit([r.s EXCEPT !.recv =
               [type |-> "clear_pairing_atomic", user_id |-> u,
                ret |-> r.partner_id]])

\* pairing_service.add_to_queue(u)
UnitEnqueue(u) ==
    /\ u \in DOMAIN sessions
    /\ LET s1 == add_to_queue(Cur, u)
       IN  Commit([s1 EXCEPT !.recv =
               [type |-> "add_to_queue", user_id |-> u,
                ret |-> get_queue_position(s1, u)]])

\* pairing_service.remove_from_queue(u)
UnitDequeue(u) ==
    /\ u \in DOMAIN sessions
    /\ Commit([remove_from_queue(Cur, u) EXCEPT !.recv =
           [type |-> "remove_from_queue", user_id |-> u, ret |-> None]])

\* pairing_service.try_pair(v)
UnitTryPair(v) ==
    /\ v \in DOMAIN sessions
    /\ LET r == try_pair(Cur, v)
       IN  Commit([r.s EXCEPT !.recv =
               [type |-> "try_pair", user_id |-> v, ret |-> r.partner_id]])

\* pairing_service.add_to_queue(u) and then pairing_service.try_pair(v)
UnitEnqueueTryPair(u, v) ==
    /\ u # v
    /\ u \in DOMAIN sessions /\ v \in DOMAIN sessions
    /\ LET r == try_pair(add_to_queue(Cur, u), v)
       IN  Commit([r.s EXCEPT !.recv =
               [type |-> "add_to_queue;try_pair", enqueued |-> u,
                user_id |-> v, ret |-> r.partner_id]])

UnitNext ==
    \/ \E a, b \in Users : UnitPair(a, b)
    \/ \E u \in Users : UnitClear(u)
    \/ \E u \in Users : UnitEnqueue(u)
    \/ \E u \in Users : UnitDequeue(u)
    \/ \E v \in Users : UnitTryPair(v)
    \/ \E u, v \in Users : UnitEnqueueTryPair(u, v)
    \/ \E u \in Users : Expire(u)

UnitSpec == UnitInit /\ [][UnitNext]_vars

\* C18 (pair_users_atomic): a call pair_users_atomic(A, B, sid, tA, tB)
\* returns true exactly when both sessions exist and neither is paired;
\* then paired, partner_id, session_id, task and last_activity are set on
\* both sessions in that one step and no other session changes; otherwise
\* it returns false and the session table is unchanged, so an existing
\* pairing is never overwritten.
C18_PairAtomic ==
    [][recv'.type = "pair_users_atomic" =>
           LET a == recv'.user_id
               b == recv'.partner_id
               free == /\ a \in DOMAIN sessions /\ b \in DOMAIN sessions
                       /\ ~sessions[a].paired /\ ~sessions[b].paired
           IN  /\ recv'.ret <=> free
               /\ recv'.ret =>
                      /\ sessions'[a] =
                             [sessions[a] EXCEPT
                                 !.paired = TRUE, !.partner_id = b,
                                 !.session_id = recv'.session_id, !.task = 1,
                                 !.last_activity = events]
                      /\ sessions'[b] =
                             [sessions[b] EXCEPT
                                 !.paired = TRUE, !.partner_id = a,
                                 !.session_id = recv'.session_id, !.task = 2,
                                 !.last_activity = events]
                      /\ recv'.session_id # NoSid
                      /\ \A w \in DOMAIN sessions \ {a, b} :
                             sessions'[w] = sessions[w]
               /\ ~recv'.ret => sessions' = sessions
               /\ DOMAIN sessions' = DOMAIN sessions]_vars

\* C18 is exercised: a call was refused because the partner asked for is
\* paired with somebody else.
C18_Witness ==
    /\ recv.type = "pair_users_atomic"
    /\ ~recv.ret
    /\ recv.user_id \in DOMAIN sessions
    /\ ~sessions[recv.user_id].paired
    /\ recv.partner_id \in DOMAIN sessions
    /\ sessions[recv.partner_id].paired
    /\ sessions[recv.partner_id].partner_id # recv.user_id

\* C19 (cooldown respected by the matcher): try_pair(v) never returns a
\* user whose delay has not expired, returns nobody to a v whose delay has
\* not expired, and never returns v itself; the delayed users of the queue
\* are the same, in the same order, after the call as before it; and the
\* position add_to_queue reports is the index in the whole queue, delayed
\* users included.
C19_CooldownRespected ==
    [][/\ recv'.type = "try_pair" =>
              /\ recv'.ret # None =>
                     /\ recv'.ret # recv'.user_id
                     /\ InQueue(Cur, recv'.ret)
                     /\ ~is_delayed(Cur, recv'.ret)
                     /\ ~is_delayed(Cur, recv'.user_id)
              /\ SelectSeq(queue', LAMBDA x : is_delayed(Cur, x)) =
                     SelectSeq(queue, LAMBDA x : is_delayed(Cur, x))
              /\ timers' = timers
       /\ recv'.type = "add_to_queue" =>
              /\ recv'.ret \in 1..Len(queue')
              /\ queue'[recv'.ret] = recv'.user_id
              /\ \A i \in 1..Len(queue) : queue'[i] = queue[i]]_vars

\* C19 is exercised: try_pair was called for a user without delay, passed
\* over the delayed user that is in the queue, and found nobody.
C19_Witness ==
    /\ recv.type = "try_pair"
    /\ recv.ret = None
    /\ Len(queue) = 2
    /\ \E i \in 1..2 : queue[i] = recv.user_id
    /\ ~is_delayed(Cur, recv.user_id)
    /\ \E i \in 1..2 : is_delayed(Cur, queue[i])

\* C20 (queue law): after add_to_queue(u), when no user of the queue other
\* than u and v is free of delay and v itself is not delayed, try_pair(v)
\* for a v # u returns u if and only if u is not delayed.
C20_QueueLaw ==
    [][recv'.type = "add_to_queue;try_pair" =>
           LET u == recv'.enqueued
               v == recv'.user_id
           IN  (/\ ~is_delayed(Cur, v)
                /\ \A i \in 1..Len(queue) :
                       queue[i] \in {u, v} \/ is_delayed(Cur, queue[i])) =>
                   (recv'.ret = u <=> ~is_delayed(Cur, u))]_vars

\* C21 (enqueue is idempotent): add_to_queue(u) appends u only when u is not
\* in the queue, leaves the queue as it is otherwise, and returns the
\* 1-indexed position of u; so after any sequence of add_to_queue,
\* remove_from_queue and try_pair calls no user_id is in the queue twice.
C21_EnqueueIdempotent ==
    /\ \A i, j \in 1..Len(queue) : i # j => queue[i] # queue[j]
    /\ [][/\ recv'.type = "add_to_queue" =>
               LET u == recv'.user_id
               IN  /\ queue' = IF InQueue(Cur, u) THEN queue ELSE Append(queue, u)
                   /\ recv'.ret \in 1..Len(queue')
                   /\ queue'[recv'.ret] = u
           /\ \A i, j \in 1..Len(queue') : i # j => queue'[i] # queue'[j]]_vars

\* C21 is exercised: add_to_queue was called for a user that was in the
\* queue already, ahead of somebody else.
C21_Witness ==
    /\ recv.type = "add_to_queue"
    /\ recv.ret < Len(queue)

\* C22 (graceful degradation): while the AI subsystem is unavailable (AI
\* participants disabled, or no provider initialised), the registry holds no
\* AI participant, there is no AI session and no session has is_ai_partner
\* set; no session id is minted except in a step that takes a human partner
\* out of the queue; and a user leaves the queue only in such a step or in
\* a step of its own dispatcher (its disconnect), so a lone waiter stays in
\* the queue.
C22_GracefulDegradation ==
    /\ [](~(cfg.ai_enabled /\ cfg.providers_ok) =>
              /\ participants = <<>>
              /\ ai_sessions = <<>>
              /\ \A u \in DOMAIN sessions : ~sessions[u].is_ai_partner)
    /\ [][~(cfg.ai_enabled /\ cfg.providers_ok) =>
              /\ nextSid' # nextSid =>
                     \E v \in Users : InQueue(Cur, v) /\ ~InQueue(Cur, v)'
              /\ \A v \in Users :
                     (InQueue(Cur, v) /\ ~InQueue(Cur, v)') =>
                         \/ nextSid' # nextSid
                         \/ \A p \in Procs \ {Disp(v)} : proc'[p] = proc[p]]_vars

\* C22 is exercised: AI participants are enabled and forced on odd users but
\* no provider is initialised, and the join of a lone user has run to its
\* end with the user still waiting in the queue.
C22_Witness ==
    /\ cfg.ai_enabled /\ cfg.force_ai /\ ~cfg.providers_ok
    /\ DOMAIN sessions = {"A"}
    /\ queue = <<"A">>
    /\ events = 1
    /\ proc[Disp("A")].pc = "idle"
    /\ nextSid = 0

\* C23 (AI concurrency cap): the registry never holds more than
\* max_ai_participants AI participants, whatever tasks ask for one; and
\* once the cap is reached a step adds no participant and no AI session.
C23_AICap ==
    /\ [](Cardinality(DOMAIN participants) <= cfg.max_ai)
    /\ [][Cardinality(DOMAIN participants) >= cfg.max_ai =>
              /\ DOMAIN participants' \subseteq DOMAIN participants
              /\ DOMAIN ai_sessions' \subseteq DOMAIN ai_sessions]_vars

\* C23 is exercised: the registry is full, and the AI fallback of one more
\* lone user has minted a session id and was refused a participant; the
\* user waits in the queue.
C23_Witness ==
    /\ Cardinality(DOMAIN participants) = MaxAIParticipants
    /\ nextSid = MaxAIParticipants + 1
    /\ DOMAIN disk = 1..MaxAIParticipants
    /\ Cardinality(DOMAIN sessions) = MaxAIParticipants + 1
    /\ Len(queue) = 1
    /\ events = MaxAIParticipants + 1
    /\ Quiescent

\* The step is one in which task p calls try_pairing(u): from handle_join,
\* from handle_reassign or handle_disconnect without pairing delay, or from
\* delayed_pairing once it has found u unpaired and in the queue.
CallsTryPairing(p, u) ==
    \/ /\ proc[p].pc \in {"tp", "u1"}
       /\ proc[p].pc = "u1" => ~pairing_delay_enabled(Cur)
       /\ u = Owner(p)
       /\ proc'[p] # proc[p]
    \/ /\ proc[p].pc = "p2"
       /\ ~pairing_delay_enabled(Cur)
       /\ u = proc[p].par
       /\ proc'[p] # proc[p]
    \/ /\ p = DTask(u)
       /\ proc[p].pc = "idle"
       /\ timers # <<>> /\ Head(timers) = <<"task", u>>
       /\ timers' = Tail(timers)
       /\ HasSession(Cur, u) /\ ~sessions[u].paired /\ InQueue(Cur, u)

\* C24 (pairing failure recovery): when try_pairing(u) finds a partner in
\* the queue and pair_users_atomic refuses the two, then at the end of the
\* step, where try_pairing has returned to its caller, u is in the queue,
\* no `paired` frame was written and no conversation record was created.
C24_PairFailureRecovery ==
    [][\A p \in Procs, u \in Users :
           (/\ CallsTryPairing(p, u)
            /\ try_pair(Cur, u).partner_id # None
            /\ CatalogOk(Cur)
            /\ ~pair_users_atomic(Cur, u, try_pair(Cur, u).partner_id,
                                  generate_session_id(Cur), 1, 2).ok) =>
               /\ InQueue(Cur, u)'
               /\ wrote'.type # "paired"
               /\ DOMAIN disk' = DOMAIN disk
               /\ DOMAIN conversations' = DOMAIN conversations]_vars

\* C25 (empty catalog): when try_pairing(u) finds a partner v in the queue
\* and the catalog has no topic or fewer than two tasks, then u and v are
\* both in the queue after the step, u is written the error frame in that
\* step and v in the next step of the task (each on an open transport), and
\* neither step changes a session or creates a conversation; so neither
\* user is paired.
C25_EmptyCatalog ==
    [][\A p \in Procs :
          /\ \A u \in Users :
                 (/\ ~CatalogOk(Cur)
                  /\ CallsTryPairing(p, u)
                  /\ try_pair(Cur, u).partner_id # None) =>
                     LET v == try_pair(Cur, u).partner_id
                     IN  /\ InQueue(Cur, u)' /\ InQueue(Cur, v)'
                         /\ wsOpen[u] => /\ wrote'.type = "error"
                                         /\ wrote'.to = u
                         /\ proc'[p].pc = "tp_err2" /\ proc'[p].par = v
                         /\ ~sessions'[u].paired /\ ~sessions'[v].paired
                         /\ sessions' = sessions
                         /\ conversations' = conversations /\ disk' = disk
          /\ (proc[p].pc = "tp_err2" /\ proc'[p] # proc[p]) =>
                 LET v == proc[p].par
                 IN  /\ wsOpen[v] => /\ wrote'.type = "error"
                                     /\ wrote'.to = v
                     /\ queue' = queue
                     /\ sessions' = sessions
                     /\ conversations' = conversations /\ disk' = disk]_vars

\* C25 is exercised: with an empty catalog a join found a partner, both
\* were put back, the partner was the last to be written the error frame
\* and the handler has returned.
C25_Witness ==
    /\ ~cfg.catalog_ok
    /\ wrote.type = "error"
    /\ wrote.frame = ErrorFrame("No topics or tasks")
    /\ Len(queue) = 2
    /\ wrote.to = queue[2]
    /\ \A u \in DOMAIN sessions : ~sessions[u].paired
    /\ disk = <<>>
    /\ Quiescent

\* C26 (delayed pairing is conditional): when the sleep of a delayed_pairing
\* task of U ends and U's session is gone, or U is paired, or U is not in
\* the queue, the task ends at once: the step writes no frame and changes
\* no session, queue, delay, registry or conversation.
C26_DelayedConditional ==
    [][\A u \in Users :
           (/\ recv'.type = "wakeup" /\ recv'.from = u
            /\ ~(/\ HasSession(Cur, u)
                 /\ ~sessions[u].paired
                 /\ InQueue(Cur, u))) =>
               /\ wrote'.type = "none"
               /\ timers' = Tail(timers)
               /\ proc' = proc
               /\ UNCHANGED <<sessions, connections, wsOpen, ai_sessions,
                              queue, participants, conversations, disk,
                              nextSid, pairedSeen>>]_vars

\* C26 is exercised: without AI fallback, the sleep of U's task has just
\* ended with U no longer in the queue, and two other users that the task
\* could have matched are still waiting there.
C26_Witness ==
    /\ ~cfg.ai_enabled
    /\ recv.type = "wakeup"
    /\ ~InQueue(Cur, recv.from)
    /\ ~sessions[recv.from].paired
    /\ Len(NonDelayed(Cur)) = 2
    /\ wrote.type = "none"

\* ---------------------------------------------------- AI turns in flight
\* The turns of an AI participant step by step: the idle monitor, the
\* messages forwarded by the partner, the provider calls with their
\* retries, and the removal of the participant from the registry while
\* turns are in flight.
\* The turn of task t is over: a forward task ends, the idle monitor goes
\* back to its sleep.
EndTurn(s, t) ==
    IF t[1] = "fwd"
    THEN [s EXCEPT !.proc = [x \in DOMAIN @ \ {t} |-> @[x]]]
    ELSE [s EXCEPT !.proc[t] = ProcRest("idle")]

\* _idle_monitor_loop: a sleep of idle_check_interval_seconds is over on
\* an active participant.  When the partner has been silent for
\* idle_timeout_seconds the monitor starts a re-engagement turn, up to
\* the provider call of _generate_with_retry.
IdleTick(a) ==
    /\ a \in DOMAIN participants
    /\ participants[a].is_active
    /\ proc[Gen(a)].pc = "idle"
    /\ events < MaxEvents
    /\ LET idle == IF participants[a].idle < IdleTimeout
                   THEN participants[a].idle + 1 ELSE participants[a].idle
           s1 == [Cur EXCEPT !.events = @ + 1,
                             !.participants[a].idle = idle,
                             !.recv = [type |-> "tick", from |-> a]]
       IN  Commit(IF idle >= IdleTimeout
                  THEN [s1 EXCEPT !.proc[Gen(a)] =
                           [ProcRest("provider") EXCEPT !.h = "idle_monitor"]]
                  ELSE s1)

\* forward_message_to_ai(a, content) with the next message of the partner,
\* in a task of its own: AIParticipant.receive_message on an active
\* participant, up to the provider call of _generate_with_retry.
GenStart(a) ==
    /\ a \in DOMAIN participants
    /\ participants[a].is_active
    /\ participants[a].forwarded < MaxForwards
    /\ events < MaxEvents
    /\ LET n == participants[a].forwarded + 1
           s1 == forward_message_to_ai(Cur, a, <<"Hi">>)
       IN  Commit([s1 EXCEPT
               !.events = @ + 1,
               !.participants[a].idle = 0,
               !.participants[a].memory = Append(@, <<"partner", n>>),
               !.proc = (Fwd(a, n) :> [ProcRest("provider") EXCEPT
                                          !.h = "receive_message"]) @@ @,
               !.recv = [type |-> "receive_message", from |-> a, n |-> n]])

\* GenRespond with a loop that makes one attempt more than max_retries.
GenRespond_one_more(t) ==
    /\ t \in DOMAIN proc
    /\ t[1] \in {"gen", "fwd"}
    /\ proc[t].pc = "provider"
    /\ \E outcome \in {"speech", "artifact", "empty", "raise"} :
           LET s1 == [Cur EXCEPT
                        !.proc[t].ts = @ + 1,
                        !.recv = [type |-> "generate_response", from |-> t[2],
                                  task |-> t, attempt |-> proc[t].ts + 1,
                                  outcome |-> outcome]]
           IN  Commit(CASE outcome = "speech" ->
                               [s1 EXCEPT !.proc[t].pc = "typing"]
                        [] outcome = "artifact" -> EndTurn(s1, t)
                        [] OTHER ->
                               IF proc[t].ts + 1 <= MaxRetries
                               THEN s1
                               ELSE EndTurn(s1, t))

\* _generate_with_retry: the provider call of task t returns.  A response
\* with speech ends the loop: the turn goes on to the typing delay, or
\* ends there when sanitize_speech leaves nothing of the speech
\* ("artifact").  A response without speech or an exception is followed,
\* after a second, by the next attempt, max_retries attempts in all.
GenRespond(t) ==
    /\ t \in DOMAIN proc
    /\ t[1] \in {"gen", "fwd"}
    /\ proc[t].pc = "provider"
    /\ \E outcome \in {"speech", "artifact", "empty", "raise"} :
           LET s1 == [Cur EXCEPT
                        !.proc[t].ts = @ + 1,
                        !.recv = [type |-> "generate_response", from |-> t[2],
                                  task |-> t, attempt |-> proc[t].ts + 1,
                                  outcome |-> outcome]]
           IN  Commit(CASE outcome = "speech" ->
                               [s1 EXCEPT !.proc[t].pc = "typing"]
                        [] outcome = "artifact" -> EndTurn(s1, t)
                        [] OTHER ->
                               IF proc[t].ts + 1 < MaxRetries
                               THEN s1
                               ELSE EndTurn(s1, t))

\* GenDeliver for an idle monitor that leaves last_partner_message_time
\* as it is after a turn.
GenDeliver_no_reset(t) ==
    /\ t \in DOMAIN proc
    /\ t[1] \in {"gen", "fwd"}
    /\ proc[t].pc = "typing"
    /\ LET a == t[2]
           n == IF t[1] = "fwd" THEN t[3] ELSE 0
           s1 == [Cur EXCEPT !.recv = [type |-> "on_message", from |-> a,
                                       task |-> t]]
           s2 == IF a \in DOMAIN participants
                 THEN [s1 EXCEPT !.participants[a].memory =
                                     Append(@, <<"assistant", n>>)]
                 ELSE s1
       IN  Commit(EndTurn(handle_ai_message(s2, a, AIThink, AISpeech), t))

\* _generate_and_send_response after the typing delay: the turn is added
\* to the memory and handed to on_message, which is handle_ai_message;
\* the idle monitor then sets last_partner_message_time to now.
GenDeliver(t) ==
    /\ t \in DOMAIN proc
    /\ t[1] \in {"gen", "fwd"}
    /\ proc[t].pc = "typing"
    /\ LET a == t[2]
           n == IF t[1] = "fwd" THEN t[3] ELSE 0
           s1 == [Cur EXCEPT !.recv = [type |-> "on_message", from |-> a,
                                       task |-> t]]
           s2 == IF a \in DOMAIN participants
                 THEN [s1 EXCEPT !.participants[a].memory =
                                     Append(@, <<"assistant", n>>)]
                 ELSE s1
           s3 == handle_ai_message(s2, a, AIThink, AISpeech)
           s4 == IF t[1] = "gen" /\ a \in DOMAIN participants
                 THEN [s3 EXCEPT !.participants[a].idle = 0]
                 ELSE s3
       IN  Commit(EndTurn(s4, t))

\* AIManager.remove_ai_participant(a), as AIManager.shutdown and the
\* handlers of a human with an AI partner call it.  end_conversation
\* cancels the idle monitor, which ends at the await it is suspended in;
\* the forward tasks in flight go on.
RemoveAI(a) ==
    /\ a \in DOMAIN participants
    /\ Commit(remove_ai_participant(
           [Cur EXCEPT !.proc[Gen(a)] = ProcRest("idle"),
                       !.recv = [type |-> "remove_ai_participant",
                                 from |-> a]], a))

AIInit == Init /\ is_available(Cur) /\ ~cfg.delay_enabled

\* The tasks that may be generating a turn.
TurnTasks == GenTasks \cup {Fwd(a, n) : a \in AIs, n \in 1..MaxForwards}

AINext ==
    \/ \E u \in Users : Connect(u)
    \/ \E u \in Users : RecvJoin(u)
    \/ \E p \in Procs : JoinTryPairing(p)
    \/ \E p \in Procs : PairedToPartner(p)
    \/ \E a \in AIs : IdleTick(a)
    \/ \E a \in AIs : GenStart(a)
    \/ \E t \in TurnTasks : GenRespond(t)
    \/ \E t \in TurnTasks : GenDeliver(t)
    \/ \E a \in AIs : RemoveAI(a)

AISpec == AIInit /\ [][AINext]_vars

\* C27 (no ghost AI messages): in a step that starts and ends with the AI
\* participant a out of the registry, no partner_message of a is written
\* to any user and no message with role a is appended to a conversation,
\* in the cache or on disk, even when the step is the end of a turn that
\* was in flight when a was removed.
C27_NoGhostAI ==
    [][\A a \in AIs :
           (a \notin DOMAIN participants /\ a \notin DOMAIN participants') =>
               /\ ~(wrote'.type = "partner_message" /\ wrote'.frame.from = a)
               /\ \A sid \in DOMAIN disk' :
                      SelectSeq(disk'[sid].messages, LAMBDA m : m.role = a) =
                          IF sid \in DOMAIN disk
                          THEN SelectSeq(disk[sid].messages,
                                         LAMBDA m : m.role = a)
                          ELSE <<>>
               /\ \A sid \in DOMAIN conversations' :
                      SelectSeq(conversations'[sid].messages,
                                LAMBDA m : m.role = a) =
                          IF sid \in DOMAIN conversations
                          THEN SelectSeq(conversations[sid].messages,
                                         LAMBDA m : m.role = a)
                          ELSE <<>>]_vars

\* C27 is exercised: a turn of an AI participant that was in flight when
\* the registry removed the participant has just come to on_message, the
\* human partner is connected, and nothing was written.
C27_Witness ==
    /\ recv.type = "on_message"
    /\ recv.from \notin DOMAIN participants
    /\ \E sid \in DOMAIN disk :
           /\ disk[sid].participants[2] = recv.from
           /\ wsOpen[disk[sid].participants[1]]
           /\ disk[sid].messages = <<>>
    /\ wrote.type = "none"

\* C28 (explicit disconnect closes the connection): once a `disconnect`
\* frame of u has been handled, the dispatcher loop of u is not waiting for
\* another frame, and the step after the one that took the frame does not
\* take a frame from u again (a following join does not enqueue u).
C28_DisconnectCloses ==
    /\ [](\A u \in Users :
              (recv.type = "disconnect" /\ recv.from = u) =>
                  proc[Disp(u)].pc # "idle")
    /\ [][\A u \in Users :
              (recv.type = "disconnect" /\ recv.from = u) =>
                  /\ ~(/\ recv'.type \in {"join", "message", "reassign",
                                          "disconnect"}
                       /\ recv'.from = u)
                  /\ ~InQueue(Cur, u) => ~InQueue(Cur, u)']_vars

\* C29 (rejected messages have no side effects): a message from a sender
\* that is not paired, or from a mutually paired sender with a think
\* shorter than MIN_THINK_CHARS or a speech that is blank after strip, is
\* answered with an error frame to the sender and ends the handler; the
\* step writes to nobody else and changes no session, queue, delay,
\* conversation or registry.
C29_RejectedNoEffect ==
    [][\A u \in Users :
           (/\ recv'.type = "message" /\ recv'.from = u
            /\ \/ ~sessions[u].paired
               \/ /\ sessions[u].is_ai_partner \/ Mutual(u)
                  /\ \/ ThinkLen(recv'.frame.think) < MIN_THINK_CHARS
                     \/ Strip(recv'.frame.speech) = "") =>
               /\ wrote'.type = "error" /\ wrote'.to = u
               /\ proc' = proc
               /\ pairedSeen' = pairedSeen
               /\ UNCHANGED <<sessions, queue, timers, conversations, disk,
                              participants, ai_sessions, nextSid,
                              connections, wsOpen>>]_vars

\* C29 is exercised: a mutually paired user has just had a message with a
\* valid think and a blank speech rejected, in a conversation that already
\* holds a turn.
C29_Witness ==
    /\ recv.type = "message"
    /\ ThinkLen(recv.frame.think) >= MIN_THINK_CHARS
    /\ Strip(recv.frame.speech) = ""
    /\ sessions[recv.from].paired
    /\ Mutual(recv.from)
    /\ wrote.type = "error" /\ wrote.to = recv.from
    /\ Len(disk[sessions[recv.from].session_id].messages) = 1

\* The client that never sends a `join` frame with consent.
Abstainer == "B"

\* The server with a client that never consents: every step of Next but a
\* `join` with consent from Abstainer.  Abstainer still connects, sends
\* `join` without consent, `message`, `reassign` and `disconnect` frames,
\* and the other clients send every frame.
AbstainNext ==
    /\ Next
    /\ ~(recv'.type = "join" /\ recv'.from = Abstainer /\ recv'.frame.consent)

AbstainSpec == Init /\ [][AbstainNext]_vars

\* C30 (consent gate): a join frame without consent is answered with an
\* error frame to the sender and ends the handler: the user is not put
\* into the queue, no pairing is attempted and no session changes; and a
\* user that never sends a join with consent is never paired.
C30_ConsentGate ==
    /\ [][\A u \in Users :
              (recv'.type = "join" /\ recv'.from = u
               /\ ~recv'.frame.consent) =>
                  /\ wrote'.type = "error" /\ wrote'.to = u
                  /\ proc' = proc
                  /\ UNCHANGED <<sessions, queue, timers, nextSid,
                                 conversations, disk, participants,
                                 ai_sessions>>]_vars
    /\ [](Abstainer \in DOMAIN sessions => ~sessions[Abstainer].paired)

\* ------------------------------------------------------------ the locks
\* What each coroutine of the session table, of the wait queue, of the
\* store and of a provider does with the two locks and with the outside,
\* in the order of its code: "acq_session"/"rel_session" enter and leave
\* `async with self._session_lock`, "acq_queue"/"rel_queue" the same for
\* pairing_service._lock, "socket" is a socket write (or accept), "disk"
\* a file write, "llm" a provider call.  No body of an `async with`
\* awaits anything or calls another locking coroutine.
LockOps ==
    [connect |-> <<"socket", "acq_session", "rel_session">>,
     disconnect |-> <<"acq_session", "rel_session">>,
     update_session |-> <<"acq_session", "rel_session">>,
     send_json |-> <<"acq_session", "rel_session", "socket">>,
     send_to_partner |-> <<"acq_session", "rel_session", "socket">>,
     pair_users_atomic |-> <<"acq_session", "rel_session">>,
     clear_pairing_atomic |-> <<"acq_session", "rel_session">>,
     update_activity |-> <<"acq_session", "rel_session">>,
     try_pair_atomic |-> <<"acq_queue", "rel_queue">>,
     add_to_queue_atomic |-> <<"acq_queue", "rel_queue">>,
     remove_from_queue_atomic |-> <<"acq_queue", "rel_queue">>,
     get_queue_position_atomic |-> <<"acq_queue", "rel_queue">>,
     has_odd_user_waiting_atomic |-> <<"acq_queue", "rel_queue">>,
     get_odd_user_atomic |-> <<"acq_queue", "rel_queue">>,
     end_conversation |-> <<"disk">>,
     generate_response |-> <<"llm">>]

\* NextOp for a send_json that writes to the socket inside
\* `async with self._session_lock`.
NextOp_write_under_lock(p) ==
    IF proc[p].pc # "call" THEN "none"
    ELSE IF proc[p].h = "send_json"
    THEN <<"acq_session", "socket", "rel_session">>[proc[p].ts + 1]
    ELSE LockOps[proc[p].h][proc[p].ts + 1]

\* The operation task p is about to perform, if it is inside a coroutine
\* of LockOps: h is the coroutine and ts the operations done so far.
NextOp(p) ==
    IF proc[p].pc = "call" THEN LockOps[proc[p].h][proc[p].ts + 1] ELSE "none"

\* Task p awaits a coroutine of LockOps: manager.connect when the
\* connection is new (websocket_endpoint), any other afterwards, as the
\* handlers await them one after the other.
LockCall(p, m) ==
    /\ events < MaxEvents
    /\ \/ proc[p].pc = "off" /\ m = "connect"
       \/ proc[p].pc = "idle" /\ m # "connect"
    /\ Commit([Cur EXCEPT !.proc[p] = [ProcRest("call") EXCEPT !.h = m],
                          !.events = @ + 1])

\* Task p performs its next operation.  Acquiring a lock that is held
\* suspends the task until the lock is released; the other tasks run
\* after every operation, which is more interleaving than asyncio allows.
LockStep(p) ==
    /\ proc[p].pc = "call"
    /\ NextOp(p) = "acq_session" => held.session = {}
    /\ NextOp(p) = "acq_queue" => held.queue = {}
    /\ LET op == NextOp(p)
           s1 == [Cur EXCEPT
                    !.held.session = CASE op = "acq_session" -> {p}
                                       [] op = "rel_session" -> {}
                                       [] OTHER -> @,
                    !.held.queue = CASE op = "acq_queue" -> {p}
                                     [] op = "rel_queue" -> {}
                                     [] OTHER -> @,
                    !.recv = [type |-> op, from |-> Owner(p)]]
       IN  Commit(IF proc[p].ts + 1 = Len(LockOps[proc[p].h])
                  THEN [s1 EXCEPT !.proc[p] = ProcRest("idle")]
                  ELSE [s1 EXCEPT !.proc[p].ts = @ + 1])

LockNext ==
    \/ \E u \in Users, m \in DOMAIN LockOps : LockCall(Disp(u), m)
    \/ \E u \in Users : LockStep(Disp(u))

LockSpec == RaceInit /\ [][LockNext]_vars

\* C31 (lock discipline): no task writes to a socket, writes a file or
\* calls a provider while it holds the session-table lock or the
\* wait-queue lock; no task acquires the wait-queue lock while it holds the
\* session-table lock; and the locks never deadlock: while some task is
\* inside a coroutine, some task can perform its next operation.
C31_LockDiscipline ==
    /\ \A p \in Procs :
           NextOp(p) \in {"socket", "disk", "llm"} =>
               p \notin held.session \cup held.queue
    /\ \A p \in Procs : NextOp(p) = "acq_queue" => p \notin held.session
    /\ (\E p \in Procs : proc[p].pc = "call") =>
           \E p \in Procs :
               /\ proc[p].pc = "call"
               /\ NextOp(p) = "acq_session" => held.session = {}
               /\ NextOp(p) = "acq_queue" => held.queue = {}

\* C31 is exercised: one task holds the session lock, another waits for
\* it, a third holds the queue lock, and the last operation performed was
\* a socket write.
C31_Witness ==
    /\ recv.type = "socket"
    /\ held.session # {} /\ held.queue # {}
    /\ held.session # held.queue
    /\ \E p \in Procs : NextOp(p) = "acq_session" /\ p \notin held.session

\* ------------------------------------------- the AI fallback, with room
\* The server with AI participants available for lone users, the pairing
\* delay enabled and room for one AI participant more than in Spec; the
\* clients join and reassign.
OddInit ==
    /\ sessions = <<>>
    /\ connections = {}
    /\ wsOpen = [u \in Users |-> FALSE]
    /\ ai_sessions = <<>>
    /\ queue = <<>>
    /\ timers = <<>>
    /\ participants = <<>>
    /\ conversations = <<>>
    /\ disk = <<>>
    /\ nextSid = 0
    /\ proc = [p \in Procs \cup {Evictor} \cup GenTasks |->
                   ProcRest(IF p[1] = "disp" THEN "off" ELSE "idle")]
    /\ recv = NoFrame
    /\ wrote = NoFrame
    /\ pairedSeen = [u \in Users |-> NoSid]
    /\ events = 0
    /\ cfg = [ai_enabled |-> TRUE, providers_ok |-> TRUE, force_ai |-> TRUE,
              delay_enabled |-> TRUE, catalog_ok |-> TRUE,
              max_ai |-> MaxAIParticipants + 1]
    /\ held = [session |-> {}, queue |-> {}]

OddNext ==
    \/ \E u \in Users : Connect(u)
    \/ \E u \in Users : RecvJoin(u)
    \/ \E u \in Users : RecvReassign(u)
    \/ \E p \in Procs : JoinTryPairing(p)
    \/ \E p \in Procs : PairedToPartner(p)
    \/ \E p \in Procs : Resume(p)
    \/ \E p \in Procs : RequeuePartner(p)
    \/ \E p \in Procs : PairPartner(p)
    \/ \E p \in Procs : EndFinish(p)
    \/ \E p \in Procs : PairSelf(p)
    \/ \E u \in Users : DelayedPairing(u)
    \/ \E u \in Users : Expire(u)

OddSpec == OddInit /\ [][OddNext]_vars

\* The state in which the step that task p is about to take tests
\* has_odd_user_waiting: after the try_pair of its try_pairing call, or,
\* when the task resumes in delayed_pairing after try_pairing, as it is.
OddMoment(p) ==
    IF proc[p].pc = "cont"
    THEN Cur
    ELSE try_pair(Cur, IF proc[p].pc = "p2" THEN proc[p].par ELSE Owner(p)).s

\* C32 (AI fallback targets only the odd waiter): a step that creates an
\* AI participant for user U is taken when U is the single entry of the
\* wait queue that is not in cooldown, on the join path and on the
\* delayed-pair path alike.
C32_OddWaiterOnly ==
    [][\A a \in AIs :
           (a \notin DOMAIN participants /\ a \in DOMAIN participants') =>
               \E p \in Procs :
                   /\ proc'[p] # proc[p]
                   /\ get_odd_user(OddMoment(p)) = participants'[a].partner_id]_vars

\* C33 (idle re-engagement timer): a sleep of the idle monitor that ends
\* starts a re-engagement turn exactly when the partner has been silent
\* for idle_timeout_seconds, and the monitor starts a turn in no other
\* way; a turn of the monitor that is handed to on_message sets the time
\* of the last partner message to now, so that the next sleep starts no
\* turn; a turn that fails leaves the time as it is, so that the next
\* sleep starts a turn again; and the monitor of a participant that is not
\* in the registry sleeps no more and is in no turn.
C33_IdleTimer ==
    [][\A a \in AIs :
           /\ (recv'.type = "tick" /\ recv'.from = a) =>
                  /\ a \in DOMAIN participants /\ participants[a].is_active
                  /\ proc'[Gen(a)].pc = "provider" <=>
                         participants'[a].idle >= IdleTimeout
           /\ (proc[Gen(a)].pc = "idle" /\ proc'[Gen(a)].pc # "idle") =>
                  recv'.type = "tick" /\ recv'.from = a
           /\ (recv'.type = "on_message" /\ recv'.task = Gen(a)) =>
                  /\ a \in DOMAIN participants'
                  /\ participants'[a].idle = 0
                  /\ proc'[Gen(a)].pc = "idle"
           /\ (/\ recv'.type = "generate_response" /\ recv'.task = Gen(a)
               /\ proc'[Gen(a)].pc = "idle") =>
                  /\ a \in DOMAIN participants'
                  /\ participants'[a].idle = participants[a].idle
           /\ a \notin DOMAIN participants' => proc'[Gen(a)].pc = "idle"]_vars

\* C33 is exercised: the first re-engagement turn of an AI participant
\* failed, nothing was added to its memory, and the next sleep of the
\* monitor has started a turn again.
C33_Witness ==
    \E a \in DOMAIN participants :
        /\ recv.type = "tick" /\ recv.from = a
        /\ proc[Gen(a)].pc = "provider"
        /\ participants[a].idle = IdleTimeout
        /\ participants[a].memory = <<>>
        /\ events = IdleTimeout + 2

\* C34 (bounded retry): in one turn the provider is called at most
\* max_retries times; a response with speech ends the loop; and a turn
\* whose last attempt raises or comes without speech ends in that step
\* with nothing written to a connection, nothing added to a conversation
\* and no entry added to the memory of the participant.
C34_BoundedRetry ==
    [][\A t \in TurnTasks :
           (recv'.type = "generate_response" /\ recv'.task = t) =>
               /\ recv'.attempt <= MaxRetries
               /\ recv'.outcome = "speech" =>
                      proc'[t].pc = "typing"
               /\ (recv'.outcome \in {"empty", "raise"}
                   /\ recv'.attempt < MaxRetries) =>
                      proc'[t].pc = "provider"
               /\ (\/ recv'.outcome = "artifact"
                   \/ recv'.outcome \in {"empty", "raise"}
                      /\ recv'.attempt = MaxRetries) =>
                      /\ t \notin DOMAIN proc' \/ proc'[t].pc = "idle"
                      /\ wrote'.type = "none"
                      /\ UNCHANGED <<participants, disk, conversations>>]_vars

\* C34 is exercised: the last of max_retries attempts of a turn that
\* answers a message of the partner has failed; the turn is over, the
\* memory holds the partner's message only and the conversation is empty.
C34_Witness ==
    /\ recv.type = "generate_response"
    /\ recv.task[1] = "fwd"
    /\ recv.attempt = MaxRetries
    /\ recv.outcome \in {"empty", "raise"}
    /\ recv.task \notin DOMAIN proc
    /\ recv.from \in DOMAIN participants
    /\ participants[recv.from].memory = <<<<"partner", 1>>>>
    /\ disk[participants[recv.from].session_id].messages = <<>>

\* C38 (a failed match preserves the queue): a call of try_pair that
\* returns no partner leaves the queue with the same users in the same
\* order, so the requester keeps its place.
C38_FailedMatchKeepsQueue ==
    [][(recv'.type = "try_pair" /\ recv'.ret = None) => queue' = queue]_vars

\* C36 (the disconnect protocol is idempotent): when handle_disconnect
\* starts for a user u whose earlier handle_disconnect has ended its
\* conversation (the session of u still names that conversation, which
\* has ended_at set), it writes no frame, changes no session of another
\* user, and leaves the queue and the conversations as they are.
C36_DisconnectIdempotent ==
    [][\A u \in Users :
           (/\ DisconnectStep(u)
            /\ HasSession(Cur, u)
            /\ sessions[u].paired
            /\ sessions[u].session_id \in DOMAIN disk
            /\ disk[sessions[u].session_id].ended_at) =>
               /\ wrote'.type = "none"
               /\ \A v \in DOMAIN sessions \ {u} : sessions'[v] = sessions[v]
               /\ queue' = queue
               /\ disk' = disk]_vars

\* C35 (no queue leak): a user that try_pairing(u) took out of the queue as
\* the partner of u is, when that try_pairing has returned or has written
\* its first `paired` frame, either paired with u or in the queue again.
C35_NoQueueLeak ==
    [][\A p \in Procs, u \in Users :
           (/\ CallsTryPairing(p, u)
            /\ try_pair(Cur, u).partner_id # None) =>
               LET v == try_pair(Cur, u).partner_id
               IN  \/ InQueue(Cur, v)'
                   \/ /\ u \in DOMAIN sessions' /\ v \in DOMAIN sessions'
                      /\ sessions'[u].paired /\ sessions'[u].partner_id = v
                      /\ sessions'[v].paired /\ sessions'[v].partner_id = u]_vars

\* C37 (at most one AI per human): in every reachable state no user_id is
\* the partner of more than one AI participant of the registry, and a step
\* that adds an AI participant to the registry adds it for a user whose
\* session exists and is not paired before the step.
C37_OneAIPerHuman ==
    /\ [](\A a, b \in DOMAIN participants :
              participants[a].partner_id = participants[b].partner_id => a = b)
    /\ [][\A a \in AIs :
              (a \notin DOMAIN participants /\ a \in DOMAIN participants') =>
                  /\ HasSession(Cur, participants'[a].partner_id)
                  /\ ~sessions[participants'[a].partner_id].paired]_vars

\* C39 (no two eligible waiters stay unmatched): with a non-empty catalog,
\* whenever no handler and no delayed_pairing task is running, no
\* delayed_pairing task is sleeping and no cooldown is pending, the wait
\* queue holds at most one user.
C39_NoTwoWaiters ==
    (CatalogOk(Cur) /\ Quiescent /\ timers = <<>>) => Len(queue) <= 1

====
